---- MODULE Spec2Model ----
(***************************************************************************)
(* A model of coll-fns: the join resolution engine (fetch.js), the field   *)
(* projection algebra (fields.js), the join registry (join.js) and the     *)
(* hook wrapped write operations (insert.js, update.js, remove.js).        *)
(*                                                                         *)
(* Representation of JavaScript values                                     *)
(*  - a field-spec value is a tagged record: Undef, Null, Num(n), Bool(b)  *)
(*    or Obj(m), m a function from keys to field-spec values;              *)
(*  - a key of a field spec is the sequence of its dot separated segments: *)
(*    "a.b" is <<"a", "b">>, "name" is <<"name">>;                         *)
(*  - a document is a function from field names to values; a field of      *)
(*    ArrayFields holds a sequence of strings, a join key holds a tagged   *)
(*    join value, every other field holds a string;                        *)
(*  - Object.keys enumeration follows a fixed order (KeySeq).              *)
(***************************************************************************)
EXTENDS Integers, Sequences, FiniteSets, TLC

(***************************************************************************)
(* Bounds of the model.                                                    *)
(***************************************************************************)
\* largest recursion depth requested for a self-referential join
MaxDepth == 3
\* number of fetchList invocations after which a run is cut off
MaxFrames == 16

(***************************************************************************)
(* JavaScript values.                                                      *)
(***************************************************************************)
Undef == [t |-> "undef"]
Null == [t |-> "null"]
Num(n) == [t |-> "num", n |-> n]
Bool(b) == [t |-> "bool", b |-> b]
Obj(m) == [t |-> "obj", m |-> m]
EmptyMap == <<>>

\* JavaScript truthiness of a field-spec value
Truthy(v) ==
  CASE v.t = "num" -> v.n # 0
    [] v.t = "bool" -> v.b
    [] v.t = "obj" -> TRUE
    [] OTHER -> FALSE

\* util.js isObj: a plain object
isObj(v) == v.t = "obj"

\* { ...a, ...b } on maps
Spread(a, b) ==
  [k \in (DOMAIN a) \cup (DOMAIN b) |-> IF k \in DOMAIN b THEN b[k] ELSE a[k]]

\* the map a without the keys of ks
Omit(a, ks) == [k \in (DOMAIN a) \ ks |-> a[k]]

\* util.js filter on a plain object, the predicate given as the set of kept keys
FilterKeys(a, ks) == [k \in (DOMAIN a) \cap ks |-> a[k]]

RECURSIVE SetToSeq(_)
SetToSeq(S) ==
  IF S = {} THEN <<>>
  ELSE LET x == CHOOSE y \in S : TRUE IN <<x>> \o SetToSeq(S \ {x})

\* Object.keys(m), in the fixed enumeration order of the model
KeySeq(m) == SetToSeq(DOMAIN m)

(***************************************************************************)
(* fields.js: the field projection algebra.                                *)
(***************************************************************************)
\* a key that starts with "$" (an operator such as $elemMatch)
IsOperatorKey(k) == Head(k) \in {"$elemMatch", "$slice"}

RECURSIVE flattenFields(_, _)
RECURSIVE FlattenReduce(_, _, _, _)

\* a reduce that omits no key
FlattenAll(fields, root, ks, acc) ==
  IF ks = <<>> THEN acc
  ELSE
    LET k == Head(ks)
        shouldSelect == fields.m[k]
        dotKey == root \o k
        accMap == IF acc = Undef THEN EmptyMap ELSE acc.m
        sub == flattenFields(shouldSelect, dotKey)
        next ==
          IF ~isObj(shouldSelect)
            THEN Obj(Spread(accMap, [x \in {dotKey} |-> Bool(Truthy(shouldSelect))]))
            ELSE Obj(Spread(accMap, IF sub = Undef THEN EmptyMap ELSE sub.m))
    IN FlattenReduce(fields, root, Tail(ks), next)
\* the reduce of flattenFields over the keys ks of fields, from accumulator acc
FlattenReduce(fields, root, ks, acc) ==
  IF ks = <<>> THEN acc
  ELSE
    LET k == Head(ks)
        subRoot == <<Head(k)>>
        collides == /\ Len(k) > 1
                    /\ subRoot \in DOMAIN fields.m
                    /\ Truthy(fields.m[subRoot])
                    /\ ~isObj(fields.m[subRoot])
        shouldSelect == fields.m[k]
        dotKey == root \o k
        accMap == IF acc = Undef THEN EmptyMap ELSE acc.m
        sub == flattenFields(shouldSelect, dotKey)
        next ==
          IF collides THEN acc
          ELSE IF ~isObj(shouldSelect)
            THEN Obj(Spread(accMap, [x \in {dotKey} |-> Bool(Truthy(shouldSelect))]))
            ELSE Obj(Spread(accMap, IF sub = Undef THEN EmptyMap ELSE sub.m))
    IN FlattenReduce(fields, root, Tail(ks), next)

\* flattenFields(fields, root): nested field spec to dot notation; root is <<>>
\* when no root is given
flattenFields(fields, root) ==
  IF ~Truthy(fields) THEN fields
  ELSE IF \E k \in DOMAIN fields.m : IsOperatorKey(k)
    THEN (IF root # <<>> THEN Obj([x \in {root} |-> fields]) ELSE fields)
    ELSE FlattenReduce(fields, root, KeySeq(fields.m), Undef)

\* normalizeFields(fields, flatten)
normalizeFields(fields, flatten) ==
  IF ~isObj(fields) THEN (IF Truthy(fields) THEN Undef ELSE Obj(EmptyMap))
  ELSE IF ~flatten THEN fields
  ELSE flattenFields(fields, <<>>)

(***************************************************************************)
(* join.js: the registry of join definitions and the join prefix.          *)
(* A join definition is [Coll, on, single, limit, skip, fields]; on is     *)
(*   [type |-> "array", from, fromArray, to, toArray, extra]               *)
(*   [type |-> "object", sel]      a static selector                       *)
(*   [type |-> "function", prop, arg]   doc => ({ [prop]: doc[arg] })      *)
(* limit and skip are NoVal when the definition does not give them.        *)
(***************************************************************************)
VARIABLES
  joinsDictionnary,  \* join.js: collection -> (join key -> join definition)
  joinPrefix         \* join.js: "" (no prefix) or the prefix key

\* an option that is undefined or not given
NoVal == 0 - 1

\* the field-spec key of a top-level name
K(name) == <<name>>

\* getJoins(Coll): the registered joins of Coll, keyed by field-spec key
getJoins(Coll) ==
  IF Coll \in DOMAIN joinsDictionnary THEN joinsDictionnary[Coll] ELSE EmptyMap

\* isolateJoinFields(fields, joins): [own |-> map, join |-> Undef or a value];
\* the join part is what the code returns under "+"
isolateJoinFields(fields, joins) ==
  IF joinPrefix # ""
  THEN
    LET pk == K(joinPrefix)
        joinFields == IF pk \in DOMAIN fields.m THEN fields.m[pk] ELSE Undef
        ownFields == Omit(fields.m, {pk})
    IN IF ~Truthy(joinFields) THEN [own |-> ownFields, join |-> Undef]
       ELSE [own |-> ownFields,
             join |-> Obj(FilterKeys(joinFields.m, DOMAIN joins))]
  ELSE
    LET jk == (DOMAIN fields.m) \cap (DOMAIN joins)
    IN [own |-> Omit(fields.m, jk),
        join |-> IF jk = {} THEN Undef ELSE Obj(FilterKeys(fields.m, jk))]

\* own fields left as the caller gave them
NoAugment(joins, ks, acc) == acc

RECURSIVE AugmentReduce(_, _, _)
\* the reduce of dispatchFields that adds what each used join needs
AugmentReduce(joins, ks, acc) ==
  IF ks = <<>> THEN acc
  ELSE
    LET def == joins[Head(ks)]
        onFields == IF def.on.type = "array"
                    THEN [x \in {K(def.on.from)} |-> Num(1)] ELSE EmptyMap
        hasOn == def.on.type = "array"
        jf == IF isObj(def.fields) THEN def.fields.m ELSE EmptyMap
        next == IF ~(hasOn \/ Truthy(def.fields)) THEN acc
                ELSE Spread(Spread(acc, onFields), jf)
    IN AugmentReduce(joins, Tail(ks), next)

\* dispatchFields(fields, joins): [own |-> the "_" part, join |-> the "+" part]
dispatchFields(fields, joins) ==
  IF ~isObj(fields) THEN [own |-> normalizeFields(fields, FALSE), join |-> Undef]
  ELSE
    LET iso == isolateJoinFields(fields, joins)
        allOwnIncluded == DOMAIN iso.own = {}
    IN IF ~Truthy(iso.join)
       THEN [own |-> normalizeFields(Obj(iso.own), TRUE), join |-> Undef]
       ELSE IF allOwnIncluded
       THEN [own |-> normalizeFields(Obj(iso.own), TRUE), join |-> iso.join]
       ELSE [own |-> normalizeFields(
                       Obj(AugmentReduce(joins, KeySeq(iso.join.m), iso.own)), TRUE),
             join |-> iso.join]

\* a decrement that leaves the requested depth as it is
keepRecursiveField(key, fields) == fields

\* decrementRecursiveField(key, fields)
decrementRecursiveField(key, fields) ==
  IF ~isObj(fields) THEN fields
  ELSE
    LET pk == K(joinPrefix)
        prev == IF joinPrefix # ""
                THEN (IF pk \in DOMAIN fields.m /\ isObj(fields.m[pk])
                         /\ key \in DOMAIN fields.m[pk].m
                      THEN fields.m[pk].m[key] ELSE Undef)
                ELSE (IF key \in DOMAIN fields.m THEN fields.m[key] ELSE Undef)
    IN IF prev.t # "num" THEN fields
       ELSE
         LET decremented == Num(prev.n - 1)
         IN IF joinPrefix = ""
            THEN Obj(Spread(fields.m, [x \in {key} |-> decremented]))
            ELSE Obj(Spread(fields.m,
                   [x \in {pk} |->
                      Obj(Spread(fields.m[pk].m, [y \in {key} |-> decremented]))]))

(***************************************************************************)
(* Documents and the storage behind the protocol.                          *)
(***************************************************************************)
VARIABLES
  db        \* the stored documents: collection -> sequence of documents

\* the fields that hold an array of linking values
ArrayFields == {"friendIds", "tagIds", "owners"}

\* what doc[name] coerces to as an object key when the field is missing
Missing == "undefined"

\* doc[name] of a field holding a string
Scalar(doc, name) == IF name \in DOMAIN doc THEN doc[name] ELSE Missing

\* doc[name] || [] of a field holding an array
ArrayOf(doc, name) == IF name \in DOMAIN doc THEN doc[name] ELSE <<>>

\* the elements of a sequence
Range(s) == {s[i] : i \in 1..Len(s)}

\* value attached under a join key
JList(docs) == [jt |-> "list", docs |-> docs]
JOne(doc) == [jt |-> "one", doc |-> doc]
JUndef == [jt |-> "undef"]

Coalesce(x, y) == IF x # NoVal THEN x ELSE y

\* one condition of a selector on the field prop of doc:
\*  "eq"  { prop: val }   "in"  { prop: { $in: vals } }
\*  "elemIn"  { prop: { $elemMatch: { $in: vals } } }
CondHolds(doc, prop, cond) ==
  IF prop \in ArrayFields
  THEN \E v \in Range(ArrayOf(doc, prop)) : v \in Range(cond.vals)
  ELSE /\ cond.op # "elemIn"
       /\ Scalar(doc, prop) \in Range(cond.vals)

\* a selector is a map from field names to conditions, {} matching everything
Matches(doc, sel) == \A p \in DOMAIN sel : CondHolds(doc, p, sel[p])

Eq(val) == [op |-> "eq", vals |-> <<val>>]
In(vals) == [op |-> "in", vals |-> vals]
ElemIn(vals) == [op |-> "elemIn", vals |-> vals]

\* a transform function: marks the document with the keys it saw and counts
\* its applications
ApplyTransform(name, doc) ==
  LET prev == IF "_t" \in DOMAIN doc THEN doc["_t"].n ELSE 0
  IN Spread(doc, [x \in {"_t"} |->
       [n |-> prev + 1, by |-> name, keys |-> (DOMAIN doc) \ {"_t"}]])

\* a transform option is "undefined", "null" or the name of a function
isFuncT(tr) == tr \notin {"undefined", "null"}

\* the documents of a projection: an inclusion projection keeps _id and the
\* selected fields, an exclusion projection drops the deselected ones
Project(doc, fields) ==
  IF ~isObj(fields) \/ DOMAIN fields.m = {} THEN doc
  ELSE
    LET on(k) == ~(fields.m[k].t = "bool" /\ ~fields.m[k].b)
        inclusion == \E k \in DOMAIN fields.m : on(k)
        kept == IF inclusion
                THEN {f \in DOMAIN doc :
                        \/ f = "_id"
                        \/ \E k \in DOMAIN fields.m : Head(k) = f /\ on(k)}
                ELSE {f \in DOMAIN doc : K(f) \notin DOMAIN fields.m}
    IN [f \in kept |-> doc[f]]

SeqMap(Op(_), s) == [i \in 1..Len(s) |-> Op(s[i])]

\* s without its first n elements; the first n elements of s
Drop(s, n) == IF n >= Len(s) THEN <<>> ELSE SubSeq(s, n + 1, Len(s))
Take(s, n) == IF n >= Len(s) THEN s ELSE SubSeq(s, 1, n)

\* protocol.findList(Coll, selector, options): the matching documents, after
\* skip and limit, projected, and transformed when options carry a transform
findList(Coll, selector, options) ==
  LET found == SelectSeq(db[Coll], LAMBDA d : Matches(d, selector))
      skipped == IF options.skip > 0 THEN Drop(found, options.skip) ELSE found
      limited == IF options.limit > 0 THEN Take(skipped, options.limit) ELSE skipped
      shaped(d) == LET p == Project(d, options.fields)
                   IN IF isFuncT(options.transform)
                      THEN ApplyTransform(options.transform, p) ELSE p
  IN SeqMap(shaped, limited)

\* protocol.count(Coll, selector)
count(Coll, selector) == Len(SelectSeq(db[Coll], LAMBDA d : Matches(d, selector)))

(***************************************************************************)
(* util.js helpers used by the join resolution.                            *)
(***************************************************************************)
RECURSIVE FlatMap(_, _)
\* list.flatMap(Op)
FlatMap(Op(_), s) ==
  IF s = <<>> THEN <<>> ELSE Op(Head(s)) \o FlatMap(Op, Tail(s))

RECURSIVE uniqueById(_, _)
\* uniqueBy("_id", list), acc the items kept so far
uniqueById(list, acc) ==
  IF list = <<>> THEN acc
  ELSE LET item == Head(list)
           exists == \E i \in 1..Len(acc) : Scalar(acc[i], "_id") = Scalar(item, "_id")
       IN uniqueById(Tail(list), IF exists THEN acc ELSE Append(acc, item))

\* includesSome(searchedArr, sourceArr)
includesSome(searchedArr, sourceArr) ==
  \E i \in 1..Len(sourceArr) : sourceArr[i] \in Range(searchedArr)

(***************************************************************************)
(* fetch.js: the array join of fetchList (lines 102-205).                  *)
(***************************************************************************)
\* propList: the linking values of the ready documents
PropList(readyDocs, on) ==
  IF on.fromArray
  THEN FlatMap(LAMBDA doc : IF on.from \in DOMAIN doc THEN doc[on.from]
                            ELSE <<Missing>>, readyDocs)
  ELSE SeqMap(LAMBDA doc : Scalar(doc, on.from), readyDocs)

\* subSelector of an array join
ArrSubSelector(readyDocs, on) ==
  LET propList == PropList(readyDocs, on)
  IN Spread(on.extra,
       [x \in {on.to} |-> IF on.toArray THEN ElemIn(propList) ELSE In(propList)])

\* indexedByToProp[v]: the joined documents filed under the value v, one entry
\* for each element of an array valued toProp that equals v
IndexedByToProp(allJoinedDocs, to, v) ==
  FlatMap(LAMBDA joinedDoc :
            IF to \in ArrayFields
            THEN FlatMap(LAMBDA w : IF w = v THEN <<joinedDoc>> ELSE <<>>,
                         ArrayOf(joinedDoc, to))
            ELSE IF Scalar(joinedDoc, to) = v THEN <<joinedDoc>> ELSE <<>>,
          allJoinedDocs)

\* joinedDocs of one parent document (lines 176-198)
JoinedDocsOf(doc, on, allJoinedDocs) ==
  IF on.toArray
  THEN SelectSeq(allJoinedDocs,
         LAMBDA joinedDoc :
           LET toList == ArrayOf(joinedDoc, on.to)
           IN IF ~on.fromArray THEN Scalar(doc, on.from) \in Range(toList)
              ELSE includesSome(toList, ArrayOf(doc, on.from)))
  ELSE IF on.fromArray
  THEN uniqueById(
         FlatMap(LAMBDA fromValue : IndexedByToProp(allJoinedDocs, on.to, fromValue),
                 ArrayOf(doc, on.from)),
         <<>>)
  ELSE IndexedByToProp(allJoinedDocs, on.to, Scalar(doc, on.from))

\* raw: what is attached under the join key (before postFetch)
Raw(single, joinedDocs) ==
  IF single
  THEN (IF joinedDocs = <<>> THEN JUndef ELSE JOne(Head(joinedDocs)))
  ELSE JList(joinedDocs)

\* { ...doc, [_key]: raw }
Attach(doc, key, raw) == Spread(doc, [x \in {key[1]} |-> raw])

\* readyDocs.map(...) of lines 176-205
AttachArrJoin(readyDocs, key, def, allJoinedDocs) ==
  SeqMap(LAMBDA doc :
           Attach(doc, key, Raw(def.single, JoinedDocsOf(doc, def.on, allJoinedDocs))),
         readyDocs)

(***************************************************************************)
(* fetch.js: fetchList as a state machine. Every invocation of fetchList   *)
(* is a frame; a frame waits for storage calls and for the frames of its   *)
(* nested fetches. With a synchronous protocol a storage call is settled   *)
(* by the step that issues it; with a promise returning protocol it stays  *)
(* pending until Settle.                                                   *)
(***************************************************************************)
VARIABLES
  request,      \* the caller's fetchList(Coll, selector, options)
  getTransform, \* protocol.getTransform: collection -> transform option
  async,        \* TRUE when the protocol methods return promises
  mayFail,      \* TRUE when a storage call of this run may throw or reject
  frames,       \* the fetchList invocations of the run, in call order
  calls,        \* the storage protocol calls of the run, in call order
  phase,        \* "idle", "running", "returned", "failed" or "overflow"
  result        \* what the caller's fetchList returned or resolved to

fetchVars == <<joinsDictionnary, joinPrefix, db, request, getTransform, async,
               mayFail, frames, calls, phase, result>>

(***************************************************************************)
(* insert.js, update.js, remove.js: the state of a write call.             *)
(***************************************************************************)
VARIABLES
  wcall,          \* the caller's write: "insert", "update" or "remove"
  beforeHooks,    \* hook.js: the definitions registered for the before hook
  hasAfter,       \* TRUE when an after hook is registered for the write
  writeCount,     \* what the protocol write reports: documents written
  wpc,            \* the position of the write call
  hookRuns,       \* runHook: the state of the run of each before hook
  protocolWrites, \* how often the protocol write was invoked for the call
  writeStatus,    \* "none", "pending" or "done": the protocol write
  afterDispatched,\* TRUE once the after hook was handed its documents
  wresult,        \* "none", "value" or "error": what the caller got
  werror,         \* the error the caller got
  wreturned,      \* the value the caller got, NoVal before it returns
  afterFate,      \* what becomes of the after hook call handed to the pool
  afterCall       \* the after hook call: whether and when its function ran

writeVars == <<wcall, beforeHooks, hasAfter, writeCount, wpc, hookRuns,
               protocolWrites, writeStatus, afterDispatched, wresult, werror,
               wreturned, afterFate, afterCall>>

\* the call of an after hook: its fate in the pool, whether the hook function
\* was invoked, and whether it was invoked before the protocol write was done
AfterCall(fate, invoked, early) == [fate |-> fate, invoked |-> invoked, early |-> early]
NoCall == AfterCall("none", FALSE, FALSE)

(***************************************************************************)
(* The pool of after hook calls (createPool).                              *)
(***************************************************************************)
VARIABLES
  maxConcurrent,  \* createPool: the most calls run at once
  maxPending,     \* createPool: the most calls that wait
  onOverflow,     \* createPool: "drop", "shift" or "function"
  pendings,       \* the calls that wait, oldest first
  concurrents,    \* the calls being run
  nextId,         \* the _id the next call gets
  lastAdd         \* what the last pool.add did, "none" before the first

poolVars == <<maxConcurrent, maxPending, onOverflow, pendings, concurrents,
              nextId, lastAdd>>

\* no pool is followed
PoolIdle ==
  /\ maxConcurrent = 1
  /\ maxPending = 0
  /\ onOverflow = "drop"
  /\ pendings = <<>>
  /\ concurrents = {}
  /\ nextId = 1
  /\ lastAdd = "none"

(***************************************************************************)
(* join.js join: the calls made to register joins; fields.js combineFields:*)
(* the field specs given to it and what it made of them.                   *)
(***************************************************************************)
VARIABLES
  joinLog,        \* the join(Collection, joins) calls made so far, in order
  joinThrew,      \* the error the last join call threw, NoJoinError if none
  fa, fb, fc,     \* three field specs
  fout            \* what combineFields made of them, NoOut before

regVars == <<joinLog, joinThrew>>
algVars == <<fa, fb, fc, fout>>

\* an error of join: its kind and the join key its message names
JoinError(kind, key) == [kind |-> kind, key |-> key]
NoJoinError == JoinError("none", <<>>)

\* no join call is followed
RegIdle ==
  /\ joinLog = <<>>
  /\ joinThrew = NoJoinError

\* nothing was combined yet
NoOut == [done |-> FALSE]

\* no combination of field specs is followed
AlgIdle ==
  /\ fa = Undef
  /\ fb = Undef
  /\ fc = Undef
  /\ fout = NoOut

\* an error raised by the function or the onError handler of before hook i
Err(i, from) == [hook |-> i, from |-> from]
NoError == Err(0, "none")

\* no write call is made
WriteIdle ==
  /\ wcall = "none"
  /\ beforeHooks = <<>>
  /\ hasAfter = FALSE
  /\ afterFate = "none"
  /\ writeCount = 0
  /\ wpc = "idle"
  /\ hookRuns = <<>>
  /\ protocolWrites = 0
  /\ writeStatus = "none"
  /\ afterDispatched = FALSE
  /\ wresult = "none"
  /\ werror = NoError
  /\ wreturned = NoVal
  /\ afterCall = NoCall

\* a chain that runs its continuation whatever the outcome
swallow(ok) == "value"

\* util.js then: how a settled storage call continues the chain, "value" to
\* run the continuation, "error" to propagate the failure
then(ok) == IF ok THEN "value" ELSE "error"

\* a storage call as issued by a frame; it is settled at once by a
\* synchronous protocol
NewCall(method, Coll, selector, options, frame, via, ok) ==
  LET settled == ~async
      value == settled /\ then(ok) = "value"
  IN [method |-> method, Coll |-> Coll, selector |-> selector, options |-> options,
      frame |-> frame, via |-> via,
      threw |-> settled /\ ~ok,
      status |-> IF ~settled THEN "pending" ELSE IF value THEN "ok" ELSE "failed",
      docs |-> IF value /\ ok /\ method = "findList"
               THEN findList(Coll, selector, options) ELSE <<>>,
      n |-> IF value /\ ok /\ method = "count" THEN count(Coll, selector) ELSE 0]

\* the call c once the protocol settled it
SettledCall(c, ok) ==
  LET value == then(ok) = "value"
  IN [c EXCEPT !.threw = ~ok,
               !.status = IF value THEN "ok" ELSE "failed",
               !.docs = IF value /\ ok /\ c.method = "findList"
                        THEN findList(c.Coll, c.selector, c.options) ELSE <<>>,
               !.n = IF value /\ ok /\ c.method = "count"
                     THEN count(c.Coll, c.selector) ELSE 0]

\* the outcomes a storage call of this run can have
Outcomes == IF mayFail THEN BOOLEAN ELSE {TRUE}

\* the phase after a step that issued or settled the call c
PhaseAfter(c) == IF c.status = "failed" THEN "failed" ELSE phase

\* the join and the document an invocation or a count is made for; Top for
\* the caller's invocation
Via(key, docIdx) == [key |-> key, doc |-> docIdx]
Top == Via(<<>>, 0)

\* the keys of ks whose join is of the given type (lines 70-84)
JoinsOfType(joins, ks, type) == SelectSeq(ks, LAMBDA k : joins[k].on.type = type)

\* base options that leave the transform of the call to the protocol
KeepTransform(options, ownFields) ==
  [fields |-> ownFields, limit |-> options.limit, skip |-> options.skip,
   transform |-> options.transform]

\* options of the base findList (lines 49-53 and 62-66)
BaseOptions(options, ownFields) ==
  [fields |-> ownFields, limit |-> options.limit, skip |-> options.skip,
   transform |-> "null"]

\* the head of fetchList (lines 32-66): the frame of the invocation and the
\* base findList it issues as call number callId
NewFrame(parent, via, level, Coll, selector, options, callId) ==
  LET joins == getJoins(Coll)
      collTransform == getTransform[Coll]
      transform == IF options.transform = "undefined" THEN collTransform
                   ELSE options.transform
      d == dispatchFields(options.fields, joins)
      joinFields == IF d.join = Undef THEN EmptyMap ELSE d.join.m
      usedJoinKeys == KeySeq(joinFields)
  IN [parent |-> parent, via |-> via, level |-> level, Coll |-> Coll, selector |-> selector,
      options |-> options, transform |-> transform,
      ownFields |-> d.own, joinFields |-> joinFields,
      useJoins |-> usedJoinKeys # <<>> /\ ~(Truthy(options.fields) /\ ~isObj(options.fields)),
      arrJoins |-> JoinsOfType(joins, usedJoinKeys, "array"),
      objJoins |-> JoinsOfType(joins, usedJoinKeys, "object"),
      fnJoins |-> JoinsOfType(joins, usedJoinKeys, "function"),
      pc |-> "base", call |-> callId, docs |-> <<>>, arrIdx |-> 1, sub |-> 0,
      tasks |-> <<>>, result |-> <<>>]

\* enhance(doc) of line 40
enhance(transform, doc) ==
  IF isFuncT(transform) THEN ApplyTransform(transform, doc) ELSE doc

\* the step that invokes fetchList(Coll, selector, options) from frame parent:
\* the new frame and its base findList are appended; past MaxFrames
\* invocations the run is cut off as still recursing
Invoke(fs, parent, via, level, Coll, selector, options, ok) ==
  IF Len(fs) >= MaxFrames
  THEN /\ frames' = fs
       /\ calls' = calls
       /\ phase' = "overflow"
  ELSE LET callId == Len(calls) + 1
           fr == NewFrame(parent, via, level, Coll, selector, options, callId)
           c == NewCall("findList", Coll, selector,
                        BaseOptions(options, fr.ownFields), Len(fs) + 1, via, ok)
       IN /\ frames' = Append(fs, fr)
          /\ calls' = Append(calls, c)
          /\ phase' = PhaseAfter(c)

\* the step that issues count(Coll, selector) from frame f
Probe(fs, f, via, selector, ok) ==
  LET c == NewCall("count", fs[f].Coll, selector,
                   [fields |-> Undef, limit |-> NoVal, skip |-> NoVal,
                    transform |-> "undefined"], f, via, ok)
  IN /\ frames' = fs
     /\ calls' = Append(calls, c)
     /\ phase' = PhaseAfter(c)

\* what a fetchList call leaves as it is
Static == <<joinsDictionnary, joinPrefix, db, request, getTransform, async, mayFail,
            writeVars, poolVars, regVars, algVars>>

\* the caller invokes fetchList
FetchList ==
  /\ phase = "idle"
  /\ \E ok \in Outcomes :
       /\ frames' = <<NewFrame(0, Top, 0, request.Coll, request.selector,
                               request.options, 1)>>
       /\ LET c == NewCall("findList", request.Coll, request.selector,
                     BaseOptions(request.options, frames'[1].ownFields), 1, Top, ok)
          IN /\ calls' = <<c>>
             /\ phase' = IF c.status = "failed" THEN "failed" ELSE "running"
  /\ UNCHANGED <<Static, result>>

\* a promise returned by the protocol settles
Settle(i) ==
  /\ phase = "running"
  /\ calls[i].status = "pending"
  /\ \E ok \in Outcomes :
       LET c == SettledCall(calls[i], ok)
       IN /\ calls' = [calls EXCEPT ![i] = c]
          /\ phase' = PhaseAfter(c)
  /\ UNCHANGED <<Static, frames, result>>

\* lines 47-56: no join is used, the documents are transformed and returned
BaseNoJoins(f) ==
  /\ phase = "running"
  /\ frames[f].pc = "base"
  /\ calls[frames[f].call].status = "ok"
  /\ ~frames[f].useJoins
  /\ frames' = [frames EXCEPT ![f].pc = "done",
                  ![f].result = SeqMap(LAMBDA d : enhance(frames[f].transform, d),
                                       calls[frames[f].call].docs)]
  /\ UNCHANGED <<Static, calls, phase, result>>

\* lines 60-68: joins are used, the base documents are ready
BaseWithJoins(f) ==
  /\ phase = "running"
  /\ frames[f].pc = "base"
  /\ calls[frames[f].call].status = "ok"
  /\ frames[f].useJoins
  /\ frames' = [frames EXCEPT ![f].pc = "arr",
                              ![f].docs = calls[frames[f].call].docs]
  /\ UNCHANGED <<Static, calls, phase, result>>

(***************************************************************************)
(* fetch.js lines 91-211: the array joins of a frame, one after the other. *)
(***************************************************************************)
\* the array join the frame fr is resolving
ArrKey(fr) == fr.arrJoins[fr.arrIdx]
ArrDef(fr) == getJoins(fr.Coll)[ArrKey(fr)]

\* x > 1 on a field-spec value
GreaterThanOne(v) == v.t = "num" /\ v.n > 1

\* an array join that is never taken as recursive
NeverRecursive(fr, key, def) == FALSE

\* isRecursive of line 120
ArrIsRecursive(fr, key, def) ==
  def.Coll = fr.Coll /\ GreaterThanOne(fr.joinFields[key])

\* sub options that carry the fields the join definition declares
declaredSubOptions(fr, key, def) ==
  [fields |-> def.fields,
   limit |-> NoVal,
   skip |-> Coalesce(def.skip, fr.options.skip),
   transform |-> "undefined"]
\* subOptions of lines 128-151
ArrSubOptions(fr, key, def) ==
  LET isRecursive == ArrIsRecursive(fr, key, def)
      subJoinFields == IF isRecursive
                       THEN decrementRecursiveField(key, fr.options.fields)
                       ELSE fr.joinFields[key]
      own == dispatchFields(subJoinFields, getJoins(def.Coll)).own
      allOwnIncluded == ~Truthy(own) \/ DOMAIN own.m = {}
      shouldAddToProp == isObj(subJoinFields) /\ ~allOwnIncluded
                         /\ (def.on.toArray \/ def.on.to # "_id")
      subFields == IF shouldAddToProp
                   THEN Obj(Spread(subJoinFields.m, [x \in {K(def.on.to)} |-> Num(1)]))
                   ELSE subJoinFields
  IN [fields |-> normalizeFields(subFields, FALSE),
      limit |-> NoVal,
      skip |-> Coalesce(def.skip, fr.options.skip),
      transform |-> IF isRecursive THEN fr.transform ELSE "undefined"]

\* lines 120-123: a recursive array join first counts the documents to join
ArrJoinProbe(f) ==
  /\ phase = "running"
  /\ frames[f].pc = "arr"
  /\ frames[f].arrIdx <= Len(frames[f].arrJoins)
  /\ ArrIsRecursive(frames[f], ArrKey(frames[f]), ArrDef(frames[f]))
  /\ \E ok \in Outcomes :
       Probe([frames EXCEPT ![f].pc = "arrCount", ![f].sub = Len(calls) + 1],
             f, Via(ArrKey(frames[f]), 0),
             ArrSubSelector(frames[f].docs, ArrDef(frames[f]).on), ok)
  /\ UNCHANGED <<Static, result>>

\* lines 153-156: the nested fetch of an array join that is not recursive
ArrJoinFetch(f) ==
  /\ phase = "running"
  /\ frames[f].pc = "arr"
  /\ frames[f].arrIdx <= Len(frames[f].arrJoins)
  /\ ~ArrIsRecursive(frames[f], ArrKey(frames[f]), ArrDef(frames[f]))
  /\ \E ok \in Outcomes :
       Invoke([frames EXCEPT ![f].pc = "arrFetch", ![f].sub = Len(frames) + 1],
              f, Via(ArrKey(frames[f]), 0), frames[f].level + 1,
              ArrDef(frames[f]).Coll,
              ArrSubSelector(frames[f].docs, ArrDef(frames[f]).on),
              ArrSubOptions(frames[f], ArrKey(frames[f]), ArrDef(frames[f])), ok)
  /\ UNCHANGED <<Static, result>>

\* lines 126 and 154-155: the count is zero, the recursion stops with no
\* joined document
ArrStopRecursion(f) ==
  /\ phase = "running"
  /\ frames[f].pc = "arrCount"
  /\ calls[frames[f].sub].status = "ok"
  /\ calls[frames[f].sub].n = 0
  /\ frames' = [frames EXCEPT
        ![f].pc = "arr",
        ![f].arrIdx = @ + 1,
        ![f].docs = AttachArrJoin(@, ArrKey(frames[f]), ArrDef(frames[f]), <<>>)]
  /\ UNCHANGED <<Static, calls, phase, result>>

\* lines 153-156: the count is not zero, the recursive fetch is issued
ArrRecurse(f) ==
  /\ phase = "running"
  /\ frames[f].pc = "arrCount"
  /\ calls[frames[f].sub].status = "ok"
  /\ calls[frames[f].sub].n # 0
  /\ \E ok \in Outcomes :
       Invoke([frames EXCEPT ![f].pc = "arrFetch", ![f].sub = Len(frames) + 1],
              f, Via(ArrKey(frames[f]), 0), frames[f].level + 1,
              ArrDef(frames[f]).Coll,
              ArrSubSelector(frames[f].docs, ArrDef(frames[f]).on),
              ArrSubOptions(frames[f], ArrKey(frames[f]), ArrDef(frames[f])), ok)
  /\ UNCHANGED <<Static, result>>

\* lines 158-205: the nested fetch returned, its documents are distributed
ArrAttach(f) ==
  /\ phase = "running"
  /\ frames[f].pc = "arrFetch"
  /\ frames[frames[f].sub].pc = "done"
  /\ frames' = [frames EXCEPT
        ![f].pc = "arr",
        ![f].arrIdx = @ + 1,
        ![f].docs = AttachArrJoin(@, ArrKey(frames[f]), ArrDef(frames[f]),
                                  frames[frames[f].sub].result)]
  /\ UNCHANGED <<Static, calls, phase, result>>

(***************************************************************************)
(* fetch.js lines 213-266 and createJoinFetcher (lines 311-364): object    *)
(* and function joins. Every createJoinFetcher invocation is a task of the *)
(* frame: [key, docIdx, sel, pc, sub, joined].                             *)
(***************************************************************************)
NewTask(key, docIdx, sel) ==
  [key |-> key, docIdx |-> docIdx, sel |-> sel, pc |-> "new", sub |-> 0,
   joined |-> <<>>]

\* every join taken as a join of the collection with itself
AlwaysRecursive(fr, def) == TRUE

\* isRecursive of line 329
TaskIsRecursive(fr, def) == def.Coll = fr.Coll

\* subOptions of lines 337-346
TaskSubOptions(fr, key, def) ==
  LET joinFields == IF TaskIsRecursive(fr, def)
                    THEN decrementRecursiveField(key, fr.options.fields)
                    ELSE fr.joinFields[key]
  IN [fields |-> normalizeFields(joinFields, FALSE),
      limit |-> IF def.single THEN 1
                ELSE IF def.limit > 0 THEN def.limit ELSE NoVal,
      skip |-> Coalesce(def.skip, fr.options.skip),
      transform |-> "undefined"]

\* a recursion guard that never stops
NeverStop(fr, key, recursiveCount) == FALSE

\* stopRecursion of line 335, recursiveCount the settled count
TaskStopRecursion(fr, key, recursiveCount) ==
  ~Truthy(fr.joinFields[key]) \/ recursiveCount = 0

\* the selector a function join computes for a document
FnSelector(on, doc) == [x \in {on.prop} |-> Eq(Scalar(doc, on.arg))]

\* a task starts in call order; with a synchronous protocol the previous
\* createJoinFetcher has returned before the next one is called
TaskMayStart(fr, t) ==
  /\ fr.pc \in {"obj", "fn"}
  /\ fr.tasks[t].pc = "new"
  /\ \A u \in 1..(t - 1) :
       /\ fr.tasks[u].pc # "new"
       /\ (async \/ fr.tasks[u].pc = "done")

TaskDef(fr, t) == getJoins(fr.Coll)[fr.tasks[t].key]

\* lines 213-230: the array joins are done, the object joins are fetched
StartObjJoins(f) ==
  /\ phase = "running"
  /\ frames[f].pc = "arr"
  /\ frames[f].arrIdx > Len(frames[f].arrJoins)
  /\ frames' = [frames EXCEPT
        ![f].pc = "obj",
        ![f].tasks = SeqMap(LAMBDA k : NewTask(k, 0, getJoins(frames[f].Coll)[k].on.sel),
                            frames[f].objJoins)]
  /\ UNCHANGED <<Static, calls, phase, result>>

\* lines 331-332: a self-referential join first counts the documents to join
TaskProbe(f, t) ==
  /\ phase = "running"
  /\ TaskMayStart(frames[f], t)
  /\ TaskIsRecursive(frames[f], TaskDef(frames[f], t))
  /\ \E ok \in Outcomes :
       Probe([frames EXCEPT ![f].tasks[t].pc = "count",
                            ![f].tasks[t].sub = Len(calls) + 1],
             f, Via(frames[f].tasks[t].key, frames[f].tasks[t].docIdx),
             frames[f].tasks[t].sel, ok)
  /\ UNCHANGED <<Static, result>>

\* line 350: the nested fetch of a join to another collection
TaskFetch(f, t) ==
  /\ phase = "running"
  /\ TaskMayStart(frames[f], t)
  /\ ~TaskIsRecursive(frames[f], TaskDef(frames[f], t))
  /\ \E ok \in Outcomes :
       Invoke([frames EXCEPT ![f].tasks[t].pc = "fetch",
                             ![f].tasks[t].sub = Len(frames) + 1],
              f, Via(frames[f].tasks[t].key, frames[f].tasks[t].docIdx),
              frames[f].level + 1, TaskDef(frames[f], t).Coll,
              frames[f].tasks[t].sel,
              TaskSubOptions(frames[f], frames[f].tasks[t].key, TaskDef(frames[f], t)),
              ok)
  /\ UNCHANGED <<Static, result>>

\* lines 335 and 350: the recursion stops with no joined document
TaskStop(f, t) ==
  /\ phase = "running"
  /\ frames[f].pc \in {"obj", "fn"}
  /\ frames[f].tasks[t].pc = "count"
  /\ calls[frames[f].tasks[t].sub].status = "ok"
  /\ TaskStopRecursion(frames[f], frames[f].tasks[t].key,
                       calls[frames[f].tasks[t].sub].n)
  /\ frames' = [frames EXCEPT ![f].tasks[t].pc = "done",
                              ![f].tasks[t].joined = <<>>]
  /\ UNCHANGED <<Static, calls, phase, result>>

\* line 350: the recursive fetch of a self-referential join
TaskRecurse(f, t) ==
  /\ phase = "running"
  /\ frames[f].pc \in {"obj", "fn"}
  /\ frames[f].tasks[t].pc = "count"
  /\ calls[frames[f].tasks[t].sub].status = "ok"
  /\ ~TaskStopRecursion(frames[f], frames[f].tasks[t].key,
                        calls[frames[f].tasks[t].sub].n)
  /\ \E ok \in Outcomes :
       Invoke([frames EXCEPT ![f].tasks[t].pc = "fetch",
                             ![f].tasks[t].sub = Len(frames) + 1],
              f, Via(frames[f].tasks[t].key, frames[f].tasks[t].docIdx),
              frames[f].level + 1, TaskDef(frames[f], t).Coll,
              frames[f].tasks[t].sel,
              TaskSubOptions(frames[f], frames[f].tasks[t].key, TaskDef(frames[f], t)),
              ok)
  /\ UNCHANGED <<Static, result>>

\* lines 352-360: the nested fetch returned, the join fetcher is ready
TaskFetched(f, t) ==
  /\ phase = "running"
  /\ frames[f].pc \in {"obj", "fn"}
  /\ frames[f].tasks[t].pc = "fetch"
  /\ frames[frames[f].tasks[t].sub].pc = "done"
  /\ frames' = [frames EXCEPT
        ![f].tasks[t].pc = "done",
        ![f].tasks[t].joined = frames[frames[f].tasks[t].sub].result]
  /\ UNCHANGED <<Static, calls, phase, result>>

RECURSIVE ApplyFetchers(_, _, _)
\* the join fetchers of the tasks ts applied to doc, in order (lines 353-359)
ApplyFetchers(fr, doc, ts) ==
  IF ts = <<>> THEN doc
  ELSE LET t == Head(ts)
           def == getJoins(fr.Coll)[t.key]
       IN ApplyFetchers(fr, Attach(doc, t.key, Raw(def.single, t.joined)), Tail(ts))

\* a frame that never waits for its join fetchers
NoWait(fr) == TRUE
\* every join fetcher of the frame is ready (the then of lines 216 and 232)
AllTasksDone(fr) == \A t \in 1..Len(fr.tasks) : fr.tasks[t].pc = "done"

Indices(s) == [i \in 1..Len(s) |-> i]

\* lines 232-261: the object joins are attached to every document and the
\* join fetchers of the function joins are created, document by document
StartFnJoins(f) ==
  /\ phase = "running"
  /\ frames[f].pc = "obj"
  /\ AllTasksDone(frames[f])
  /\ frames' = [frames EXCEPT
        ![f].pc = "fn",
        ![f].docs = SeqMap(LAMBDA d : ApplyFetchers(frames[f], d, frames[f].tasks), @),
        ![f].tasks =
           FlatMap(LAMBDA i :
                     SeqMap(LAMBDA k :
                              NewTask(k, i,
                                FnSelector(getJoins(frames[f].Coll)[k].on,
                                           frames[f].docs[i])),
                            frames[f].fnJoins),
                   Indices(frames[f].docs))]
  /\ UNCHANGED <<Static, calls, phase, result>>

\* lines 259-268: the function joins are attached and every document with
\* all its joins is transformed
FinishJoins(f) ==
  /\ phase = "running"
  /\ frames[f].pc = "fn"
  /\ AllTasksDone(frames[f])
  /\ frames' = [frames EXCEPT
        ![f].pc = "done",
        ![f].result =
           SeqMap(LAMBDA i :
                    enhance(frames[f].transform,
                      ApplyFetchers(frames[f], frames[f].docs[i],
                        SelectSeq(frames[f].tasks, LAMBDA t : t.docIdx = i))),
                  Indices(frames[f].docs))]
  /\ UNCHANGED <<Static, calls, phase, result>>

\* the caller's fetchList returns, or its promise resolves
FetchReturn ==
  /\ phase = "running"
  /\ frames[1].pc = "done"
  /\ phase' = "returned"
  /\ result' = frames[1].result
  /\ UNCHANGED <<Static, frames, calls>>

(***************************************************************************)
(* The configurations a run starts from: registered joins, stored          *)
(* documents and the caller's request.                                     *)
(***************************************************************************)
\* on: [fromProp, toProp, toSelector]; a one element array is given as TRUE
OnArr(from, fromArray, to, toArray) ==
  [type |-> "array", from |-> from, fromArray |-> fromArray, to |-> to,
   toArray |-> toArray, extra |-> EmptyMap]
\* on: a static selector
OnObj(sel) == [type |-> "object", sel |-> sel]
\* on: doc => ({ [prop]: doc[arg] })
OnFn(prop, arg) == [type |-> "function", prop |-> prop, arg |-> arg]

JoinDef(Coll, on, single, limit, fields) ==
  [Coll |-> Coll, on |-> on, single |-> single, limit |-> limit, skip |-> NoVal,
   fields |-> fields]

\* the object { [k]: v }
Entry(k, v) == [x \in {k} |-> v]

\* a field spec { name: 1 }
One(name) == Entry(K(name), Num(1))

\* the joins registered with join(Users, {...})
UsersJoins ==
  Entry(K("friends"),
     JoinDef("Users", OnArr("friendIds", TRUE, "_id", FALSE), FALSE, NoVal, Undef))
  @@ Entry(K("tag"),
     JoinDef("Tags", OnArr("tagId", FALSE, "_id", FALSE), TRUE, NoVal, Undef))
  @@ Entry(K("tags"),
     JoinDef("Tags", OnArr("tagIds", TRUE, "_id", FALSE), FALSE, 1, Undef))
  @@ Entry(K("owned"),
     JoinDef("Tags", OnArr("_id", FALSE, "owner", FALSE), FALSE, NoVal, Undef))
  @@ Entry(K("shared"),
     JoinDef("Tags", OnArr("_id", FALSE, "owners", TRUE), FALSE, NoVal, Undef))
  @@ Entry(K("sharedRaw"),
     JoinDef("Tags", OnArr("_id", FALSE, "owners", FALSE), FALSE, NoVal, Undef))
  @@ Entry(K("friendTags"),
     JoinDef("Tags", OnArr("friendIds", TRUE, "owners", TRUE), FALSE, NoVal, Undef))
  @@ Entry(K("team"),
     JoinDef("Tags", OnObj(Entry("kind", Eq("team"))), FALSE, NoVal,
             Obj(One("role"))))
  @@ Entry(K("boss"),
     JoinDef("Users", OnObj(Entry("role", Eq("boss"))), TRUE, NoVal, Undef))
  @@ Entry(K("mine"),
     JoinDef("Tags", OnFn("owner", "_id"), FALSE, NoVal,
             Obj(One("_id") @@ Entry(<<"meta", "owner">>, Num(1)))))
  @@ Entry(K("followers"),
     JoinDef("Users", OnFn("friendIds", "_id"), FALSE, NoVal, Obj(One("_id"))))

Registry == Entry("Users", UsersJoins)

User(id, friendIds, tagId, tagIds, role) ==
  [_id |-> id, friendIds |-> friendIds, tagId |-> tagId, tagIds |-> tagIds,
   role |-> role, meta |-> "m"]

Tag(id, owner, owners, kind) ==
  [_id |-> id, owner |-> owner, owners |-> owners, kind |-> kind]

TagDocs ==
  << Tag("x", "A", <<"A", "B">>, "team"),
     Tag("y", "A", <<"B", "B">>, "team"),
     Tag("z", "C", <<>>, "other") >>

\* the chain A -> B -> C -> D
ChainData ==
  [Users |-> << User("A", <<"B">>, "x", <<"x", "y">>, "boss"),
                User("B", <<"C">>, "y", <<"y", "y">>, "dev"),
                User("C", <<"D">>, "q", <<>>, "dev"),
                User("D", <<>>, "z", <<"z">>, "dev") >>,
   Tags |-> TagDocs]

\* the cycle A -> B -> A, nobody being a boss
CycleData ==
  [Users |-> << User("A", <<"B">>, "x", <<"x", "y">>, "dev"),
                User("B", <<"A">>, "y", <<"z">>, "dev") >>,
   Tags |-> TagDocs]

DataSets == {ChainData, CycleData}

\* the prefixes setJoinPrefix may have configured, "" for none
Prefixes == {"", "+"}

\* the fields option made of own fields and join fields under the prefix pfx
FieldSpec(pfx, own, join) ==
  IF pfx = "" THEN Obj(own @@ join) ELSE Obj(own @@ Entry(K(pfx), Obj(join)))

Options(fields, limit, skip, transform) ==
  [fields |-> fields, limit |-> limit, skip |-> skip, transform |-> transform]

Request(Coll, selector, options) ==
  [Coll |-> Coll, selector |-> selector, options |-> options]

\* join fields asking for one join
Friends(depth) == Entry(K("friends"), Num(depth))
JoinOne(name) == Entry(K(name), Num(1))

\* the join fields of the requests: every join alone, the self-referential
\* array join at every depth, some joins with sub fields, several joins at once
SingleJoinSpecs ==
  {JoinOne(n) : n \in {"tag", "tags", "owned", "shared", "sharedRaw",
                       "friendTags", "team", "boss", "mine", "followers"}}
DepthSpecs == {Friends(d) : d \in 1..MaxDepth}
SubFieldSpecs ==
  { Entry(K("owned"), Obj(One("kind"))),
    Entry(K("shared"), Obj(One("kind"))),
    Entry(K("boss"), Bool(TRUE)),
    Entry(K("friends"), Num(0)) }
Several == Friends(2) @@ JoinOne("tags") @@ JoinOne("team") @@ JoinOne("mine")
Mixed == {Several, Friends(2) @@ JoinOne("boss"), JoinOne("tag") @@ JoinOne("team")}

\* own fields: all of them, an inclusion, an exclusion, a root that covers a
\* dotted field a join declares
OwnSpecs == {One("role"), Entry(K("role"), Num(0)), One("meta"),
             Entry(K("friendIds"), Num(0))}

Selectors == {Entry("_id", Eq("A")), Entry("_id", Eq("nobody"))}

\* the fetchList calls of the model under the prefix pfx
Requests(pfx) ==
  {Request("Users", EmptyMap,
           Options(FieldSpec(pfx, EmptyMap, j), NoVal, NoVal, "undefined")) :
     j \in SingleJoinSpecs \cup DepthSpecs \cup SubFieldSpecs \cup Mixed}
  \cup
  {Request("Users", EmptyMap,
           Options(FieldSpec(pfx, o, j), NoVal, NoVal, "undefined")) :
     o \in OwnSpecs, j \in {Friends(2), JoinOne("tag"), JoinOne("mine")} \cup Mixed}
  \cup
  {Request("Users", sel,
           Options(FieldSpec(pfx, EmptyMap, j), NoVal, NoVal, "undefined")) :
     sel \in Selectors, j \in {Friends(2), JoinOne("team"), JoinOne("boss")}}
  \cup
  {Request("Users", EmptyMap,
           Options(FieldSpec(pfx, EmptyMap, j), ls[1], ls[2], "undefined")) :
     ls \in {<<1, NoVal>>, <<NoVal, 1>>},
     j \in {Friends(2), JoinOne("tags"), JoinOne("owned")}}
  \cup
  {Request("Users", EmptyMap, Options(f, NoVal, NoVal, "undefined")) :
     f \in {Undef, Obj(One("role"))}}

\* the transforms of a run: none, one given with the call, one of the collection
Transforms == {"none", "call", "coll"}

FetchInit ==
  /\ joinsDictionnary = Registry
  /\ joinPrefix \in Prefixes
  /\ db \in DataSets
  /\ async \in BOOLEAN
  /\ mayFail \in BOOLEAN
  /\ \E tr \in Transforms :
       /\ getTransform = [Users |-> IF tr = "coll" THEN "collT" ELSE "undefined",
                          Tags |-> "undefined"]
       /\ \E r \in Requests(joinPrefix) :
            request = [r EXCEPT !.options.transform =
                                   IF tr = "call" THEN "callT" ELSE "undefined"]
  \* the self-referential function join runs one fetch per document at once
  \* with a promise returning protocol: it is run on the smaller data set
  /\ (async /\ request.options.fields = FieldSpec(joinPrefix, EmptyMap, JoinOne("followers")))
       => db = CycleData
  /\ frames = <<>>
  /\ calls = <<>>
  /\ phase = "idle"
  /\ result = <<>>

FetchNext ==
  \/ FetchList
  \/ \E i \in 1..Len(calls) : Settle(i)
  \/ \E f \in 1..Len(frames) : BaseNoJoins(f)
  \/ \E f \in 1..Len(frames) : BaseWithJoins(f)
  \/ \E f \in 1..Len(frames) : ArrJoinProbe(f)
  \/ \E f \in 1..Len(frames) : ArrJoinFetch(f)
  \/ \E f \in 1..Len(frames) : ArrStopRecursion(f)
  \/ \E f \in 1..Len(frames) : ArrRecurse(f)
  \/ \E f \in 1..Len(frames) : ArrAttach(f)
  \/ \E f \in 1..Len(frames) : StartObjJoins(f)
  \/ \E f \in 1..Len(frames) : StartFnJoins(f)
  \/ \E f \in 1..Len(frames) : FinishJoins(f)
  \/ \E f \in 1..Len(frames) : \E t \in 1..Len(frames[f].tasks) : TaskProbe(f, t)
  \/ \E f \in 1..Len(frames) : \E t \in 1..Len(frames[f].tasks) : TaskFetch(f, t)
  \/ \E f \in 1..Len(frames) : \E t \in 1..Len(frames[f].tasks) : TaskStop(f, t)
  \/ \E f \in 1..Len(frames) : \E t \in 1..Len(frames[f].tasks) : TaskRecurse(f, t)
  \/ \E f \in 1..Len(frames) : \E t \in 1..Len(frames[f].tasks) : TaskFetched(f, t)
  \/ FetchReturn

vars == <<fetchVars, writeVars, poolVars, regVars, algVars>>

Init == FetchInit /\ WriteIdle /\ PoolIdle /\ RegIdle /\ AlgIdle

Next == FetchNext

Spec == Init /\ [][Next]_vars

(***************************************************************************)
(* Properties of the join resolution.                                      *)
(***************************************************************************)
\* the join fields the caller asked for
RequestedJoins ==
  LET fields == request.options.fields
  IN IF ~isObj(fields) THEN EmptyMap
     ELSE IF joinPrefix = "" THEN FilterKeys(fields.m, DOMAIN getJoins(request.Coll))
     ELSE IF K(joinPrefix) \in DOMAIN fields.m THEN fields.m[K(joinPrefix)].m
     ELSE EmptyMap

\* the depth N asked for the self-referential array join friends, 0 when the
\* join is not asked for with a number
RequestedDepth ==
  IF K("friends") \in DOMAIN RequestedJoins /\ RequestedJoins[K("friends")].t = "num"
  THEN RequestedJoins[K("friends")].n
  ELSE 0

RECURSIVE Populated(_, _, _)
\* the documents docs of nesting level level carry the key friends down to
\* level N - 1 and the documents of level N do not
Populated(docs, level, N) ==
  \A i \in 1..Len(docs) :
    IF level < N
    THEN /\ "friends" \in DOMAIN docs[i]
         /\ docs[i]["friends"].jt = "list"
         /\ Populated(docs[i]["friends"].docs, level + 1, N)
    ELSE "friends" \notin DOMAIN docs[i]

\* C1: a self-referential array join asked for with an integer depth N >= 1
\* is populated on the documents of the nesting levels 0 to N - 1 and absent
\* on the documents of level N, and the engine raises no error: a run whose
\* storage calls all succeed is never failed.
C1_DepthPopulated ==
  RequestedDepth >= 1 =>
    /\ phase = "returned" => Populated(result, 0, RequestedDepth)
    /\ ~mayFail => phase # "failed"

\* the chain A -> B -> C -> D fetched with depth 2: A.friends[0].friends holds
\* C, and C has no friends key
C1_Witness ==
  /\ phase = "returned"
  /\ RequestedDepth = 2
  /\ db = ChainData
  /\ Len(result) = 4
  /\ result[1]["_id"] = "A"
  /\ Len(result[1]["friends"].docs) = 1
  /\ result[1]["friends"].docs[1]["_id"] = "B"
  /\ Len(result[1]["friends"].docs[1]["friends"].docs) = 1
  /\ result[1]["friends"].docs[1]["friends"].docs[1]["_id"] = "C"
  /\ "friends" \notin DOMAIN result[1]["friends"].docs[1]["friends"].docs[1]

\* the run is over: fetchList returned, or failed with the error of a storage
\* call
Done == phase \in {"returned", "failed"}

\* some continuation of the run can be run or some promise can settle: the
\* guards of the steps of fetchList
CanStep ==
  \/ phase = "idle"
  \/ /\ phase = "running"
     /\ \/ \E i \in 1..Len(calls) : calls[i].status = "pending"
        \/ frames[1].pc = "done"
        \/ \E f \in 1..Len(frames) :
             LET fr == frames[f]
             IN \/ fr.pc = "base" /\ calls[fr.call].status = "ok"
                \/ fr.pc = "arr"
                \/ fr.pc = "arrCount" /\ calls[fr.sub].status = "ok"
                \/ fr.pc = "arrFetch" /\ frames[fr.sub].pc = "done"
                \/ /\ fr.pc \in {"obj", "fn"}
                   /\ \/ AllTasksDone(fr)
                      \/ \E t \in 1..Len(fr.tasks) :
                           \/ TaskMayStart(fr, t)
                           \/ fr.tasks[t].pc = "count" /\ calls[fr.tasks[t].sub].status = "ok"
                           \/ fr.tasks[t].pc = "fetch" /\ frames[fr.tasks[t].sub].pc = "done"

RECURSIVE FriendsLevel(_)
\* the number of nested fetches of the join friends that lead to the frame f
FriendsLevel(f) ==
  IF frames[f].parent = 0 THEN 0
  ELSE FriendsLevel(frames[f].parent)
       + (IF frames[f].via.key = K("friends") THEN 1 ELSE 0)

\* C2: fetchList with a self-referential array join asked for with a finite
\* positive numeric depth N terminates after a finite number of storage calls,
\* on a chain as on data whose references form a cycle: the run never nests
\* deeper than N levels of the join and is never cut off as still recursing, it is never
\* stuck before its end, and when friends is the only join asked for it makes
\* at most 2 * N storage calls whatever the data.
C2_DepthTerminates ==
  RequestedDepth >= 1 =>
    /\ phase # "overflow"
    /\ \A f \in 1..Len(frames) : FriendsLevel(f) <= RequestedDepth
    /\ Done \/ CanStep
    /\ DOMAIN RequestedJoins = {K("friends")} => Len(calls) <= 2 * RequestedDepth

\* the cycle A -> B -> A fetched to the largest depth has returned after
\* 2 * MaxDepth storage calls
C2_Witness ==
  /\ phase = "returned"
  /\ db = CycleData
  /\ RequestedDepth = MaxDepth
  /\ DOMAIN RequestedJoins = {K("friends")}
  /\ request.selector = EmptyMap
  /\ Len(calls) = 2 * MaxDepth

\* the values a document holds in the field name, one value for a scalar
ValuesOf(doc, name) ==
  IF name \in ArrayFields THEN Range(ArrayOf(doc, name)) ELSE {Scalar(doc, name)}

\* the matching rule of an array join: the child's toProp value equals the
\* parent's fromProp value, or shares an element with it when a side is an array
MatchesParent(parent, child, on) ==
  ValuesOf(parent, on.from) \cap ValuesOf(child, on.to) # {}

\* the _id of the documents of a list
IdsOf(docs) == {Scalar(docs[i], "_id") : i \in 1..Len(docs)}

\* what the nested fetch of the join key of frame f returned, nothing when no
\* nested fetch was made
FetchedFor(f, key) ==
  IF \E g \in 1..Len(frames) : frames[g].parent = f /\ frames[g].via.key = key
  THEN frames[CHOOSE g \in 1..Len(frames) :
                frames[g].parent = f /\ frames[g].via.key = key].result
  ELSE <<>>

\* the value attached to doc under key holds exactly the fetched children
\* that match doc, each once; the first of them or undefined when single
AttachedRight(doc, key, def, fetched) ==
  LET matching == SelectSeq(fetched, LAMBDA c : MatchesParent(doc, c, def.on))
      attached == doc[key[1]]
  IN IF def.single
     THEN attached = (IF matching = <<>> THEN JUndef ELSE JOne(Head(matching)))
     ELSE /\ attached.jt = "list"
          /\ IdsOf(attached.docs) = IdsOf(matching)
          /\ Cardinality(IdsOf(attached.docs)) = Len(attached.docs)

\* C3: for an array join [fromProp, toProp, extraSelector] each parent
\* document receives under the join key exactly the fetched child documents
\* whose toProp value equals (or, a side being an array, shares an element
\* with) the parent's fromProp value, each child at most once; with single the
\* first such child or undefined.
C3_ArrayJoinMatches ==
  \A f \in 1..Len(frames) :
    frames[f].pc # "base" =>
      \A i \in 1..(frames[f].arrIdx - 1) :
        LET key == frames[f].arrJoins[i]
        IN \A d \in 1..Len(frames[f].docs) :
             AttachedRight(frames[f].docs[d], key, getJoins(frames[f].Coll)[key],
                           FetchedFor(f, key))

\* the same, leaving out the join whose toProp is declared as a scalar while
\* the children hold an array in it
C3_DeclaredArrays ==
  \A f \in 1..Len(frames) :
    frames[f].pc # "base" =>
      \A i \in 1..(frames[f].arrIdx - 1) :
        LET key == frames[f].arrJoins[i]
        IN key # K("sharedRaw") =>
             \A d \in 1..Len(frames[f].docs) :
               AttachedRight(frames[f].docs[d], key, getJoins(frames[f].Coll)[key],
                             FetchedFor(f, key))

\* user B, an owner of x and twice in the owners of y, got three documents
\* under sharedRaw: x, and y twice
C3_Witness ==
  /\ phase = "returned"
  /\ db = ChainData
  /\ DOMAIN RequestedJoins = {K("sharedRaw")}
  /\ Len(result) = 4
  /\ result[2]["_id"] = "B"
  /\ Len(result[2]["sharedRaw"].docs) = 3
  /\ result[2]["sharedRaw"].docs[2]["_id"] = "y"
  /\ result[2]["sharedRaw"].docs[3]["_id"] = "y"

\* the documents of frame f a join made for via is attached to: every document
\* of the frame, or the one document a function join was resolved for
DocsOfVia(f, via, docs) ==
  IF via.doc = 0 THEN 1..Len(docs) ELSE {via.doc} \cap (1..Len(docs))

\* nothing is attached under the join key: [] or, for a single join, undefined
NothingAttached(doc, def, key) ==
  doc[key[1]] = (IF def.single THEN JUndef ELSE JList(<<>>))

C4_WitnessArray ==
  /\ phase = "returned"
  /\ RequestedDepth = 2
  /\ Len(calls) = 2
  /\ calls[2].method = "count" /\ calls[2].n = 0
  /\ Len(frames) = 1

\* the findList calls made for the child query of the join key of frame f:
\* the base findList of the nested fetches the frame made for the join
ChildQueries(f, key) ==
  {j \in 1..Len(calls) :
     /\ calls[j].method = "findList"
     /\ calls[j].via.key = key
     /\ frames[calls[j].frame].parent = f}

\* the object joins of frame f have all been resolved
ObjJoinsResolved(f) == frames[f].pc \in {"fn", "done"}

\* the recursion guard stopped the object join key of frame f: the join is
\* one of the collection with itself and its field is falsy or its count is 0
GuardStopped(f, key) ==
  /\ getJoins(frames[f].Coll)[key].Coll = frames[f].Coll
  /\ \/ ~Truthy(frames[f].joinFields[key])
     \/ \E i \in 1..Len(calls) :
          /\ calls[i].method = "count" /\ calls[i].frame = f
          /\ calls[i].via.key = key /\ calls[i].status = "ok" /\ calls[i].n = 0

\* C5 as stated: within one fetchList call with an active object join,
\* findList is invoked exactly once for the child query of that join,
\* whatever the number of base documents.
C5_ExactlyOnce ==
  \A f \in 1..Len(frames) :
    ObjJoinsResolved(f) =>
      \A t \in 1..Len(frames[f].objJoins) :
        Cardinality(ChildQueries(f, frames[f].objJoins[t])) = 1

\* C5 (amended): within one fetchList call with an active object join,
\* findList is invoked at most once for the child query of that join, whatever
\* the number of base documents; once the object joins are resolved it has
\* been invoked exactly once, unless the join is self-referential and its
\* recursion guard stopped it (falsy field or count of 0), and then never.
C5_OnceUnlessStopped ==
  \A f \in 1..Len(frames) :
    \A t \in 1..Len(frames[f].objJoins) :
      LET key == frames[f].objJoins[t]
      IN /\ Cardinality(ChildQueries(f, key)) <= 1
         /\ ObjJoinsResolved(f) =>
              Cardinality(ChildQueries(f, key)) = (IF GuardStopped(f, key) THEN 0 ELSE 1)

\* four base documents and the object join team: two findList calls in all,
\* the base one and one for the join
C5_Witness ==
  /\ phase = "returned"
  /\ DOMAIN RequestedJoins = {K("team")}
  /\ Len(result) = 4
  /\ Len(calls) = 2
  /\ ChildQueries(1, K("team")) = {2}
  /\ Len(result[4]["team"].docs) = 2

\* the transform of the caller's fetchList: the one of the call, else the one
\* of the collection
RequestTransform ==
  IF request.options.transform # "undefined" THEN request.options.transform
  ELSE getTransform[request.Coll]

\* C6: when fetchList runs with at least one active join and a transform, of
\* the call or of the collection, the transform is invoked on each top-level
\* document exactly once and only after every active join key, of the array,
\* object and function joins, has been attached to it: the documents of the
\* base query and the documents being joined have not been through it.
C6_TransformAfterJoins ==
  (DOMAIN RequestedJoins # {} /\ isFuncT(RequestTransform) /\ Len(frames) >= 1) =>
    /\ calls[1].status = "ok" =>
         \A d \in 1..Len(calls[1].docs) : "_t" \notin DOMAIN calls[1].docs[d]
    /\ \A d \in 1..Len(frames[1].docs) : "_t" \notin DOMAIN frames[1].docs[d]
    /\ phase = "returned" =>
         \A d \in 1..Len(result) :
           /\ "_t" \in DOMAIN result[d]
           /\ result[d]["_t"].n = 1
           /\ result[d]["_t"].by = RequestTransform
           /\ \A k \in DOMAIN RequestedJoins : k[1] \in result[d]["_t"].keys
           /\ \A k \in DOMAIN RequestedJoins : k[1] \in DOMAIN result[d]

\* the array join friends, the array join tags, the object join team and the
\* function join mine asked for at once with a transform given with the call:
\* the transform saw user A once, with the four keys
C6_Witness ==
  /\ phase = "returned"
  /\ DOMAIN RequestedJoins = {K("friends"), K("tags"), K("team"), K("mine")}
  /\ request.options.transform = "callT"
  /\ Len(result) = 4
  /\ result[1]["_t"].n = 1
  /\ {"friends", "tags", "team", "mine"} \subseteq result[1]["_t"].keys

\* the frame g is the nested fetch of an array join of its parent
IsArrayJoinFetch(g) ==
  /\ frames[g].parent # 0
  /\ getJoins(frames[frames[g].parent].Coll)[frames[g].via.key].on.type = "array"

\* the _id of the stored documents of Coll that match the selector
MatchingIds(Coll, selector) ==
  IdsOf(SelectSeq(db[Coll], LAMBDA d : Matches(d, selector)))

\* C7: array joins always fetch all matches: the nested fetch issued for an
\* array join is never truncated or offset by the limit of the join
\* definition nor by the limit or skip of the parent fetch, so every child that
\* matches the join selector is available for attachment.
C7_ArrayJoinFetchesAll ==
  \A g \in 1..Len(frames) :
    IsArrayJoinFetch(g) =>
      LET c == calls[frames[g].call]
      IN /\ c.options.limit = NoVal
         /\ c.options.skip = NoVal
         /\ c.status = "ok" => IdsOf(c.docs) = MatchingIds(c.Coll, c.selector)

\* the part of C7 about limits: neither the limit of the join definition nor
\* the limit of the parent fetch reaches the nested fetch of an array join
C7_LimitCleared ==
  \A g \in 1..Len(frames) :
    IsArrayJoinFetch(g) => calls[frames[g].call].options.limit = NoVal

\* fetchList(Users, {}, { skip: 1, fields: { tags: 1 } }): the nested fetch of
\* tags was made with skip 1 and lost y, so user B, whose tagIds hold y, got
\* no tag
C7_Witness ==
  /\ phase = "returned"
  /\ db = ChainData
  /\ DOMAIN RequestedJoins = {K("tags")}
  /\ request.options.skip = 1
  /\ Len(frames) = 2
  /\ calls[2].options.skip = 1
  /\ "y" \in MatchingIds(calls[2].Coll, calls[2].selector)
  /\ "y" \notin IdsOf(calls[2].docs)
  /\ result[1]["_id"] = "B"
  /\ result[1]["tags"] = JList(<<>>)

\* the own fields and the join fields of a fields option given to fetchList
\* for the collection Coll
OwnPart(Coll, fields) ==
  IF ~isObj(fields) THEN EmptyMap
  ELSE IF joinPrefix = "" THEN Omit(fields.m, DOMAIN getJoins(Coll))
  ELSE Omit(fields.m, {K(joinPrefix)})

JoinPart(Coll, fields) ==
  IF ~isObj(fields) THEN EmptyMap
  ELSE IF joinPrefix = "" THEN FilterKeys(fields.m, DOMAIN getJoins(Coll))
  ELSE IF K(joinPrefix) \in DOMAIN fields.m /\ isObj(fields.m[K(joinPrefix)])
  THEN FilterKeys(fields.m[K(joinPrefix)].m, DOMAIN getJoins(Coll))
  ELSE EmptyMap

\* the projection selects the field key: the key is in it with true, or the
\* root of a dotted key is
Selects(projection, key) ==
  /\ isObj(projection)
  /\ \/ key \in DOMAIN projection.m /\ projection.m[key] = Bool(TRUE)
     \/ /\ Len(key) > 1
        /\ <<Head(key)>> \in DOMAIN projection.m
        /\ projection.m[<<Head(key)>>] = Bool(TRUE)

\* the fields the join def needs on the base documents: the from-property of
\* an array join and the keys of the fields the join declares
NeededBy(def) ==
  (IF def.on.type = "array" THEN {K(def.on.from)} ELSE {})
  \cup (IF isObj(def.fields) THEN DOMAIN def.fields.m ELSE {})

\* C8: whenever fetchList is called with a field spec that restricts own
\* fields and activates at least one join, the projection passed to the base
\* findList selects the from-property of every active array join and every key
\* of the fields every active join declares, even if the caller's spec left
\* them out or excluded them.
C8_ProjectionAugmented ==
  \A f \in 1..Len(frames) :
    LET fields == frames[f].options.fields
        active == DOMAIN JoinPart(frames[f].Coll, fields)
        projection == calls[frames[f].call].options.fields
    IN (DOMAIN OwnPart(frames[f].Coll, fields) # {} /\ active # {}) =>
         \A k \in active :
           \A needed \in NeededBy(getJoins(frames[f].Coll)[k]) :
             Selects(projection, needed)

\* fetchList(Users, {}, { fields: { role: 1, friends: 2 } }): the base
\* findList is given the projection { role: true, friendIds: true }
C8_Witness ==
  /\ Len(frames) >= 1
  /\ OwnPart("Users", request.options.fields) = One("role")
  /\ DOMAIN JoinPart("Users", request.options.fields) = {K("friends")}
  /\ calls[1].options.fields =
       Obj(Entry(K("role"), Bool(TRUE)) @@ Entry(K("friendIds"), Bool(TRUE)))

\* the function join mine declares the fields _id and meta.owner and the
\* caller asks for meta only: the projection is { meta: true, _id: true }
C8_WitnessCovered ==
  /\ Len(frames) >= 1
  /\ OwnPart("Users", request.options.fields) = One("meta")
  /\ DOMAIN JoinPart("Users", request.options.fields) = {K("mine")}
  /\ calls[1].options.fields =
       Obj(Entry(K("meta"), Bool(TRUE)) @@ Entry(K("_id"), Bool(TRUE)))

\* the storage calls of the run that threw or rejected
Threw == {i \in 1..Len(calls) : calls[i].threw}

\* C9: if any storage call made during a fetchList call, the base findList, a
\* nested findList or a count probe, throws or rejects, the fetchList call
\* fails with that error, the run stopping at the first failure, and it never
\* returns or resolves to a document list, partially joined or not.
C9_FailureAborts ==
  /\ Threw # {} => (phase = "failed" /\ result = <<>> /\ Cardinality(Threw) = 1)
  /\ phase = "returned" => Threw = {}

\* a nested storage call failed after the first array join had been attached
\* to the base documents: the call failed and nothing was returned
C9_Witness ==
  /\ phase = "failed"
  /\ \E i \in 3..Len(calls) : calls[i].threw /\ calls[i].frame = 1
  /\ frames[1].arrIdx > 1
  /\ Len(frames[1].docs) > 0
  /\ result = <<>>

(***************************************************************************)
(* hook.js: the before hooks of a write.  A hook definition is reduced to  *)
(* what its function does ("return", "throw", or a promise that will       *)
(* "resolve" or "reject"), to its onError handler ("none", one that        *)
(* "handles" the error, one that "throws") and to whether its unless and   *)
(* when predicates let it run.                                             *)
(***************************************************************************)
MaxHooks == 2

HookDef(does, onError, runs) == [does |-> does, onError |-> onError, runs |-> runs]

HookDefs ==
  {HookDef("return", "none", TRUE), HookDef("resolve", "none", TRUE),
   HookDef("throw", "none", FALSE)}
  \cup {HookDef(d, e, TRUE) : d \in {"throw", "reject"},
                              e \in {"none", "handles", "throws"}}

\* a handler that lets no error through, whatever the definition says
swallowError(hookDef, i) == [status |-> "handled", error |-> NoError]

\* runHook's handleError: the outcome of handing the error of hook i to onError
handleError(hookDef, i) ==
  CASE hookDef.onError = "none"    -> [status |-> "failed", error |-> Err(i, "fn")]
    [] hookDef.onError = "handles" -> [status |-> "handled", error |-> NoError]
    [] hookDef.onError = "throws"  -> [status |-> "failed", error |-> Err(i, "onError")]

\* runHook, up to the point where it returns or throws: "skipped" by unless
\* or when, "ok", "pending" for a promise, or what handleError makes of a throw
runHook(hookDef, i) ==
  IF ~hookDef.runs THEN [status |-> "skipped", error |-> NoError]
  ELSE CASE hookDef.does = "return" -> [status |-> "ok", error |-> NoError]
         [] hookDef.does = "throw"  -> handleError(hookDef, i)
         [] OTHER                   -> [status |-> "pending", error |-> NoError]

\* a promise that is taken to reject however it settles
rejectHook(hookDef, i) == [status |-> "failed", error |-> Err(i, "fn")]

\* the promise of runHook settles: maybeResult.catch(handleError)
settleHook(hookDef, i) ==
  IF hookDef.does = "resolve" THEN [status |-> "ok", error |-> NoError]
  ELSE handleError(hookDef, i)

\* combineHookDefinitions: hookDefs.map(runHook), which a throw cuts short;
\* the hooks after the one that threw are left "new"
RECURSIVE MapRunHook(_, _, _)
MapRunHook(hookDefs, i, acc) ==
  IF i > Len(hookDefs) THEN [runs |-> acc, error |-> NoError]
  ELSE LET r == runHook(hookDefs[i], i)
       IN IF r.status = "failed"
          THEN [runs  |-> Append(acc, r.status)
                            \o [j \in 1..(Len(hookDefs) - i) |-> "new"],
                error |-> r.error]
          ELSE MapRunHook(hookDefs, i + 1, Append(acc, r.status))

Pending(runs) == \E i \in DOMAIN runs : runs[i] = "pending"

(***************************************************************************)
(* insert.js, update.js, remove.js: a write call, one action per step.     *)
(***************************************************************************)
Writes == {"insert", "update", "remove"}

\* no fetchList call is under way while the write is followed
NoFetchCall ==
  /\ joinPrefix = ""
  /\ db = ChainData
  /\ request = Request("Users", EmptyMap, Options(Undef, NoVal, NoVal, "undefined"))
  /\ getTransform = [Users |-> "undefined", Tags |-> "undefined"]
  /\ mayFail = FALSE
  /\ frames = <<>>
  /\ calls = <<>>
  /\ phase = "idle"
  /\ result = <<>>

\* what can become of the after hook call handed to the pool: the hook
\* function "runs", it "throws", it throws and so does its onError handler
\* ("handlerThrows"), the call is "queued" behind the running ones, it is
\* "dropped" by the overflow policy, or the overflow handling itself throws
Fates == {"runs", "throws", "handlerThrows", "queued", "dropped", "overflowThrows"}

NoFetch == joinsDictionnary = Registry /\ NoFetchCall

WriteInit ==
  /\ NoFetch
  /\ PoolIdle
  /\ RegIdle
  /\ AlgIdle
  /\ async \in BOOLEAN
  /\ wcall \in Writes
  /\ \E n \in 0..MaxHooks : beforeHooks \in [1..n -> HookDefs]
  /\ hasAfter \in BOOLEAN
  /\ afterFate \in IF hasAfter THEN Fates ELSE {"none"}
  \* protocol.insert returns the _id; update and remove report a count
  /\ writeCount \in IF wcall = "insert" THEN {1} ELSE {0, 1}
  /\ wpc = "idle"
  /\ hookRuns = [i \in DOMAIN beforeHooks |-> "new"]
  /\ protocolWrites = 0
  /\ writeStatus = "none"
  /\ afterDispatched = FALSE
  /\ wresult = "none"
  /\ werror = NoError
  /\ wreturned = NoVal
  /\ afterCall = NoCall

\* getBeforeFields: null when neither a before nor an after hook is defined
NoHooks == beforeHooks = <<>> /\ ~hasAfter

\* insert, update, remove are called: update and remove first fetch the
\* targeted documents when a hook is defined
WriteCall ==
  /\ wpc = "idle"
  /\ wpc' = IF wcall = "insert" \/ NoHooks THEN "before" ELSE "prefetch"
  /\ UNCHANGED <<fetchVars, poolVars, regVars, algVars, afterFate, wcall, beforeHooks, hasAfter, writeCount, hookRuns,
                 protocolWrites, writeStatus, afterDispatched, wresult, werror,
                 wreturned, afterCall>>

\* the fetchList of the targeted documents returns
Prefetched ==
  /\ wpc = "prefetch"
  /\ wpc' = "before"
  /\ UNCHANGED <<fetchVars, poolVars, regVars, algVars, afterFate, wcall, beforeHooks, hasAfter, writeCount, hookRuns,
                 protocolWrites, writeStatus, afterDispatched, wresult, werror,
                 wreturned, afterCall>>

\* the caller gets the error
Throw(error) ==
  /\ wpc' = "failed"
  /\ wresult' = "error"
  /\ werror' = error

\* isFunc(beforeHook?.fn) && beforeHook.fn(...): every before hook is run; a
\* throw reaches the caller, promises are waited for, else the write is next
RunBeforeHooks ==
  /\ wpc = "before"
  /\ LET m == MapRunHook(beforeHooks, 1, <<>>)
     IN /\ hookRuns' = m.runs
        /\ IF m.error # NoError THEN Throw(m.error)
           ELSE /\ wpc' = IF Pending(m.runs) THEN "hooksPending" ELSE "write"
                /\ UNCHANGED <<wresult, werror>>
  /\ UNCHANGED <<fetchVars, poolVars, regVars, algVars, afterFate, wcall, beforeHooks, hasAfter, writeCount,
                 protocolWrites, writeStatus, afterDispatched, wreturned, afterCall>>

\* the promise of before hook i settles; then(array) waits with Promise.all,
\* which rejects with the first rejection and resolves when all have resolved
SettleHook(i) ==
  /\ wpc \in {"hooksPending", "failed"}
  /\ hookRuns[i] = "pending"
  /\ LET r == settleHook(beforeHooks[i], i)
         runs == [hookRuns EXCEPT ![i] = r.status]
     IN /\ hookRuns' = runs
        /\ IF wpc = "failed" THEN UNCHANGED <<wpc, wresult, werror>>
           ELSE IF r.status = "failed" THEN Throw(r.error)
           ELSE /\ wpc' = IF Pending(runs) THEN "hooksPending" ELSE "write"
                /\ UNCHANGED <<wresult, werror>>
  /\ UNCHANGED <<fetchVars, poolVars, regVars, algVars, afterFate, wcall, beforeHooks, hasAfter, writeCount,
                 protocolWrites, writeStatus, afterDispatched, wreturned, afterCall>>

\* the after hook is handed the documents when one is registered and the
\* write reported something written
Dispatches(reported) == hasAfter /\ reported

\* a dispatch that lets the failure of the pool through to the write
letThrough(fate) == IF fate = "overflowThrows" THEN "error" ELSE "value"

\* fireAndForget(fn, onError): the dispatch is run; what it throws is given to
\* onError and the write goes on with its value
fireAndForget(fate) == "value"

\* pool.add of the call of the after hook: with room among the concurrent
\* calls processCall invokes the hook function at once
poolAdd(fate, written) ==
  LET invoked == fate \in {"runs", "throws", "handlerThrows"}
  IN AfterCall(fate, invoked, invoked /\ ~written)

\* the after hook is dispatched and not awaited
Dispatch(written) ==
  /\ afterDispatched' = TRUE
  /\ afterCall' = poolAdd(afterFate, written)
  /\ werror' = IF fireAndForget(afterFate) = "value" THEN werror ELSE Err(0, "pool")

\* the write call returns the protocol's result to its caller, or throws
Return(outcome) ==
  /\ wpc' = IF outcome = "value" THEN "returned" ELSE "failed"
  /\ wresult' = outcome
  /\ wreturned' = IF outcome = "value" THEN writeCount ELSE NoVal

\* protocol.insert, protocol.update, protocol.remove is invoked.  insert and
\* update wait for its result with then; remove tests what it returned, a
\* promise with a promise returning protocol, dispatches the after hook at
\* once and returns the promise
ProtocolWrite ==
  /\ wpc = "write"
  /\ protocolWrites' = protocolWrites + 1
  /\ writeStatus' = IF async THEN "pending" ELSE "done"
  /\ IF async /\ wcall = "remove" /\ Dispatches(TRUE)
     THEN /\ Dispatch(FALSE)
          /\ IF fireAndForget(afterFate) = "value"
             THEN /\ wpc' = "writePending"
                  /\ UNCHANGED <<wresult, wreturned>>
             ELSE Return("error")
     ELSE /\ wpc' = IF async THEN "writePending" ELSE "after"
          /\ UNCHANGED <<afterDispatched, afterCall, wreturned, werror, wresult>>
  /\ UNCHANGED <<fetchVars, poolVars, regVars, algVars, afterFate, wcall, beforeHooks, hasAfter, writeCount,
                 hookRuns>>

\* the promise of the protocol write resolves: the promise remove returned
\* settles, insert and update go on
SettleWrite ==
  /\ wpc = "writePending"
  /\ writeStatus' = "done"
  /\ IF wcall = "remove"
     THEN Return("value")
     ELSE /\ wpc' = "after"
          /\ UNCHANGED <<wresult, wreturned>>
  /\ UNCHANGED <<fetchVars, poolVars, regVars, algVars, afterFate, wcall, beforeHooks, hasAfter, writeCount,
                 hookRuns, protocolWrites, afterDispatched, werror, afterCall>>

\* the continuation of the write: without an after hook, or when update or
\* remove wrote nothing, the protocol's result is returned; insert and update
\* fetch the written documents for the after hook, remove dispatches it
AfterWrite ==
  /\ wpc = "after"
  /\ IF ~Dispatches(writeCount > 0)
     THEN /\ Return("value")
          /\ UNCHANGED <<afterDispatched, afterCall, werror>>
     ELSE IF wcall = "remove"
     THEN /\ Dispatch(writeStatus = "done")
          /\ Return(fireAndForget(afterFate))
     ELSE /\ wpc' = "refetch"
          /\ UNCHANGED <<afterDispatched, afterCall, werror, wresult, wreturned>>
  /\ UNCHANGED <<fetchVars, poolVars, regVars, algVars, afterFate, wcall, beforeHooks, hasAfter, writeCount,
                 hookRuns, protocolWrites, writeStatus>>

\* the written documents are fetched: the after hook of insert and update is
\* dispatched and the protocol's result is returned
Refetched ==
  /\ wpc = "refetch"
  /\ Dispatch(writeStatus = "done")
  /\ Return(fireAndForget(afterFate))
  /\ UNCHANGED <<fetchVars, poolVars, regVars, algVars, afterFate, wcall, beforeHooks, hasAfter, writeCount,
                 hookRuns, protocolWrites, writeStatus>>

\* processNextCall: a concurrent call completes and the queued call of the
\* after hook is processed
ProcessNextCall ==
  /\ afterCall.fate = "queued"
  /\ ~afterCall.invoked
  /\ afterCall' = AfterCall("queued", TRUE, writeStatus # "done")
  /\ UNCHANGED <<fetchVars, poolVars, regVars, algVars, afterFate, wcall, beforeHooks, hasAfter, writeCount,
                 wpc, hookRuns, protocolWrites, writeStatus, afterDispatched,
                 wresult, werror, wreturned>>

WriteNext ==
  \/ WriteCall
  \/ Prefetched
  \/ RunBeforeHooks
  \/ \E i \in DOMAIN beforeHooks : SettleHook(i)
  \/ ProtocolWrite
  \/ SettleWrite
  \/ AfterWrite
  \/ Refetched
  \/ ProcessNextCall

SpecWrite == WriteInit /\ [][WriteNext]_vars

(***************************************************************************)
(* Before hooks and the write                                              *)
(***************************************************************************)
\* the function of before hook i was run and threw, or its promise rejected
Raised(i) ==
  /\ beforeHooks[i].does \in {"throw", "reject"}
  /\ hookRuns[i] \in {"failed", "handled"}

\* the error of before hook i was not taken by an onError handler
Unhandled(i) == Raised(i) /\ beforeHooks[i].onError # "handles"

\* the write was prevented: the protocol write was not invoked and the caller
\* got the error of a before hook that raised one
Prevented ==
  /\ protocolWrites = 0
  /\ wpc = "failed"
  /\ wresult = "error"
  /\ werror.hook \in DOMAIN beforeHooks
  /\ Raised(werror.hook)
  /\ werror.from = IF beforeHooks[werror.hook].onError = "none" THEN "fn"
                   ELSE "onError"

Completed(i) ==
  /\ hookRuns[i] \notin {"new", "pending"}
  /\ ~beforeHooks[i].runs \/ beforeHooks[i].does \in {"return", "resolve"}

AllCompleted == \A i \in DOMAIN beforeHooks : Completed(i)

C12_AfterHookAfterWrite == afterCall.invoked => ~afterCall.early

\* C12: what holds is the claim for insert and update, and for remove with a
\* synchronous protocol.
C12_ExceptAsyncRemove ==
  (afterCall.invoked /\ ~(async /\ wcall = "remove")) => ~afterCall.early

\* C12: a remove with a promise returning protocol whose after hook function
\* was invoked while the promise of protocol.remove was still pending
C12_Witness ==
  /\ wcall = "remove"
  /\ async
  /\ writeStatus = "pending"
  /\ afterCall.invoked
  /\ afterCall.early

C13_ExceptAsyncRemove ==
  (wcall \in {"update", "remove"} /\ writeCount = 0 /\ ~(async /\ wcall = "remove")) =>
     (~afterDispatched /\ ~afterCall.invoked)

Raising == {"throws", "handlerThrows", "overflowThrows"}

\* C14: an error thrown or rejected while an after hook is dispatched or run,
\* the one of the pool's overflow handling included, never reaches the caller
\* of insert, update or remove: the call does not fail and returns the
\* protocol's write result.
C14_AfterHookErrorsContained ==
  (afterDispatched /\ afterFate \in Raising) =>
     /\ wresult # "error"
     /\ werror = NoError
     /\ wpc \in {"writePending", "returned"}
     /\ wpc = "returned" => (wresult = "value" /\ wreturned = writeCount)

\* C14: an insert whose after hook call made the overflow handling of the
\* pool throw has returned the inserted _id
C14_Witness ==
  /\ wcall = "insert"
  /\ afterFate = "overflowThrows"
  /\ afterDispatched
  /\ wpc = "returned"
  /\ wresult = "value"
  /\ wreturned = writeCount

(***************************************************************************)
(* pool.js createPool: the calls of the after hooks are run at most        *)
(* maxConcurrent at a time, the others wait in pendings.  A call is its    *)
(* _id; the pool is the pair of pendings and concurrents.                   *)
(***************************************************************************)
MaxCalls == 5
MaxConcurrentCfg == 2
MaxPendingCfg == 2
MaxReturned == 3

Pool(p, c) == [pendings |-> p, concurrents |-> c]

\* what a user supplied onOverflow function returns: undefined, something
\* that is no array, or an array
Undefined == [kind |-> "undefined", arr |-> <<>>]
NotArray == [kind |-> "notArray", arr |-> <<>>]
Array(arr) == [kind |-> "array", arr |-> arr]

\* the _id of an entry the pool never saw
Unknown == 0

\* handleManualOverflow's reduce: the entries of reordered known among
\* potentialPendings, each once
RECURSIVE NewPendings(_, _, _)
NewPendings(reordered, potentialPendings, acc) ==
  IF reordered = <<>> THEN acc
  ELSE LET id == Head(reordered)
           known == \E i \in DOMAIN potentialPendings : potentialPendings[i] = id
           dup == \E i \in DOMAIN acc : acc[i] = id
       IN NewPendings(Tail(reordered), potentialPendings,
                      IF known /\ ~dup THEN Append(acc, id) ELSE acc)

\* handleManualOverflow: the pendings after the function returned ret
handleManualOverflow(pool, call, ret) ==
  IF ret.kind # "array" THEN pool
  ELSE [pool EXCEPT !.pendings = NewPendings(ret.arr, Append(pool.pendings, call), <<>>)]

\* an admission that runs every call at once
addCallAlways(pool, call, ret) == [pool EXCEPT !.concurrents = @ \cup {call}]

\* an admission whose evict-oldest policy drops the incoming call
addCallDropping(pool, call, ret) ==
  IF Cardinality(pool.concurrents) < maxConcurrent
  THEN [pool EXCEPT !.concurrents = @ \cup {call}]
  ELSE IF Len(pool.pendings) < maxPending
  THEN [pool EXCEPT !.pendings = Append(@, call)]
  ELSE IF onOverflow = "function" THEN handleManualOverflow(pool, call, ret)
  ELSE pool

\* addCall, processCall, handleOverflow: the call is run when fewer than
\* maxConcurrent are, else it waits when fewer than maxPending do, else the
\* overflow policy decides
RECURSIVE addCall(_, _, _)
addCall(pool, call, ret) ==
  IF Cardinality(pool.concurrents) < maxConcurrent
  THEN [pool EXCEPT !.concurrents = @ \cup {call}]
  ELSE IF Len(pool.pendings) < maxPending
  THEN [pool EXCEPT !.pendings = Append(@, call)]
  ELSE CASE onOverflow = "drop" -> pool
         [] onOverflow = "shift" ->
              LET shifted == [pool EXCEPT !.pendings =
                                IF @ = <<>> THEN <<>> ELSE Tail(@)]
              IN IF Len(shifted.pendings) < maxPending
                 THEN addCall(shifted, call, ret) ELSE shifted
         [] OTHER -> handleManualOverflow(pool, call, ret)

\* what pool.add did with the call
AddKind(pool, call, ret) ==
  IF Cardinality(pool.concurrents) < maxConcurrent THEN "processed"
  ELSE IF Len(pool.pendings) < maxPending THEN "queued"
  ELSE IF onOverflow # "function" THEN onOverflow
  ELSE IF ret.kind = "notArray" THEN "threw" ELSE ret.kind

\* a processNextCall that starts no call
processNothing(pool) == pool

\* processNextCall: with room among the concurrent calls the oldest pending
\* call is run
processNextCall(pool) ==
  IF Cardinality(pool.concurrents) >= maxConcurrent \/ pool.pendings = <<>>
  THEN pool
  ELSE Pool(Tail(pool.pendings), pool.concurrents \cup {Head(pool.pendings)})

\* the values a user supplied onOverflow can return for these pendings
Returns(pool, call) ==
  IF onOverflow # "function" THEN {Undefined}
  ELSE LET ids == {pool.pendings[i] : i \in DOMAIN pool.pendings} \cup {call, Unknown}
       IN {Undefined, NotArray}
          \cup {Array(a) : a \in UNION {[1..n -> ids] : n \in 0..MaxReturned}}

PoolInit ==
  /\ NoFetch
  /\ async = FALSE
  /\ WriteIdle
  /\ RegIdle
  /\ AlgIdle
  /\ maxConcurrent \in 1..MaxConcurrentCfg
  /\ maxPending \in 0..MaxPendingCfg
  /\ onOverflow \in {"drop", "shift", "function"}
  /\ pendings = <<>>
  /\ concurrents = {}
  /\ nextId = 1
  /\ lastAdd = "none"

\* pool.add(fn, ...args)
PoolAdd ==
  /\ nextId <= MaxCalls
  /\ \E ret \in Returns(Pool(pendings, concurrents), nextId) :
       LET pool == addCall(Pool(pendings, concurrents), nextId, ret)
       IN /\ pendings' = pool.pendings
          /\ concurrents' = pool.concurrents
          /\ lastAdd' = AddKind(Pool(pendings, concurrents), nextId, ret)
  /\ nextId' = nextId + 1
  /\ UNCHANGED <<fetchVars, writeVars, regVars, algVars, maxConcurrent, maxPending, onOverflow>>

\* processCall's finally: a running call completes or fails, it leaves the
\* concurrent calls and the next pending call is run
PoolComplete(call) ==
  /\ call \in concurrents
  /\ LET pool == processNextCall(Pool(pendings, concurrents \ {call}))
     IN /\ pendings' = pool.pendings
        /\ concurrents' = pool.concurrents
  /\ UNCHANGED <<fetchVars, writeVars, regVars, algVars, maxConcurrent, maxPending, onOverflow,
                 nextId, lastAdd>>

\* pool.clear()
PoolClear ==
  /\ pendings # <<>>
  /\ pendings' = <<>>
  /\ UNCHANGED <<fetchVars, writeVars, regVars, algVars, maxConcurrent, maxPending, onOverflow,
                 concurrents, nextId, lastAdd>>

PoolNext ==
  \/ PoolAdd
  \/ \E call \in concurrents : PoolComplete(call)
  \/ PoolClear

SpecPool == PoolInit /\ [][PoolNext]_vars

\* C15: at every moment, whatever the interleaving of pool.add calls and of
\* completions, at most maxConcurrent calls are being run in the pool.
C15_ConcurrentBounded == Cardinality(concurrents) <= maxConcurrent

\* C15: the pool is full of running calls, others wait, and a call was
\* just refused by the overflow policy
C15_Witness ==
  /\ maxConcurrent = 2
  /\ Cardinality(concurrents) = maxConcurrent
  /\ Len(pendings) = maxPending
  /\ maxPending > 0
  /\ lastAdd = "drop"

\* C16: at every moment the pending queue holds at most maxPending calls,
\* under every overflow policy, whatever a user supplied function returns.
C16_PendingBounded == Len(pendings) <= maxPending

\* C16: what holds is the bound under the policies "drop" and "shift".
C16_BoundedUnlessFunction ==
  onOverflow \in {"drop", "shift"} => Len(pendings) <= maxPending

\* C16: a user supplied onOverflow returned an array and more than maxPending
\* calls wait
C16_Witness ==
  /\ onOverflow = "function"
  /\ lastAdd = "array"
  /\ Len(pendings) > maxPending

(***************************************************************************)
(* join.js join(Collection, joins): the registration of joins.             *)
(***************************************************************************)
MaxJoinCalls == 3

\* join.js KNOWN_TYPES
KNOWN_TYPES == {"array", "function", "object"}

\* a falsy joins argument; a missing Coll; an on that is no array, object or
\* function: its typeOf and its truthiness
Falsy == [falsy |-> TRUE]
NoColl == ""
OnOther(type, truthy) == [type |-> type, truthy |-> truthy]

\* !on
OnMissing(on) == on.type \notin KNOWN_TYPES /\ ~on.truthy

\* the definitions given to join: well formed ones and malformed ones
GoodDefs ==
  {JoinDef("Tags", OnArr("tagId", FALSE, "_id", FALSE), TRUE, NoVal, Undef),
   JoinDef("Users", OnObj(Entry("role", Eq("boss"))), TRUE, NoVal, Undef),
   JoinDef("Tags", OnFn("owner", "_id"), FALSE, NoVal, Undef)}
BadDefs ==
  {JoinDef(NoColl, OnArr("tagId", FALSE, "_id", FALSE), TRUE, NoVal, Undef),
   JoinDef("Tags", OnOther("undefined", FALSE), FALSE, NoVal, Undef),
   JoinDef("Tags", OnOther("string", FALSE), FALSE, NoVal, Undef),
   JoinDef("Tags", OnOther("string", TRUE), FALSE, NoVal, Undef),
   JoinDef("Tags", OnOther("number", TRUE), FALSE, NoVal, Undef)}

\* the joins arguments of the model: falsy, the maps of well formed
\* definitions over two join keys, and maps holding one malformed definition
JoinMaps ==
  {Falsy}
  \cup UNION {[ks -> GoodDefs] : ks \in SUBSET {K("a"), K("b")}}
  \cup {Entry(K("a"), bad) : bad \in BadDefs}
  \cup {Entry(K("a"), CHOOSE g \in GoodDefs : TRUE) @@ Entry(K("b"), bad) :
          bad \in BadDefs}

\* a validation that accepts every definition
acceptAll(key, def) == NoJoinError

\* the checks join makes on the definition of one key
checkDef(key, def) ==
  IF def.Coll = NoColl THEN JoinError("noColl", key)
  ELSE IF OnMissing(def.on) THEN JoinError("noOn", key)
  ELSE IF def.on.type \notin KNOWN_TYPES THEN JoinError("badType", key)
  ELSE NoJoinError

\* Object.entries(joins).forEach: the error of the first definition that
\* fails a check, NoJoinError when none does
RECURSIVE validate(_, _)
validate(joins, ks) ==
  IF ks = <<>> THEN NoJoinError
  ELSE LET err == checkDef(Head(ks), joins[Head(ks)])
       IN IF err # NoJoinError THEN err ELSE validate(joins, Tail(ks))

\* a registration that forgets what was registered before
replaceJoins(prev, joins) == joins

\* { ...joinsDictionnary.get(Collection), ...joins }
mergeJoins(prev, joins) == Spread(prev, joins)

\* joinsDictionnary.set(Collection, value); undefined is set by leaving the
\* collection out of the dictionnary
SetJoins(Collection, value) ==
  [c \in (DOMAIN joinsDictionnary) \cup {Collection} |->
     IF c = Collection THEN value ELSE joinsDictionnary[c]]
UnsetJoins(Collection) ==
  [c \in (DOMAIN joinsDictionnary) \ {Collection} |-> joinsDictionnary[c]]

\* a registration that keeps the well formed entries of a map it rejects
registeredSoFar(Collection, joins, err) ==
  SetJoins(Collection,
           Spread(getJoins(Collection),
                  FilterKeys(joins, {k \in DOMAIN joins :
                                       checkDef(k, joins[k]) = NoJoinError})))
\* the dictionnary after join(Collection, joins) with a map: the throw of the
\* forEach leaves the set of lines 52-55 out
registered(Collection, joins, err) ==
  IF err # NoJoinError THEN joinsDictionnary
  ELSE SetJoins(Collection, mergeJoins(getJoins(Collection), joins))

JoinInit ==
  /\ joinsDictionnary = <<>>
  /\ NoFetchCall
  /\ async = FALSE
  /\ WriteIdle
  /\ PoolIdle
  /\ AlgIdle
  /\ RegIdle

\* join(Collection, joins)
Join(Collection, joins) ==
  /\ Len(joinLog) < MaxJoinCalls
  /\ LET err == IF joins = Falsy THEN NoJoinError
                ELSE validate(joins, KeySeq(joins))
     IN /\ joinThrew' = err
        /\ joinLog' = Append(joinLog, [Coll |-> Collection, joins |-> joins,
                                       threw |-> err # NoJoinError])
        /\ joinsDictionnary' =
             IF joins = Falsy THEN UnsetJoins(Collection)
             ELSE registered(Collection, joins, err)
  /\ UNCHANGED <<joinPrefix, db, request, getTransform, async, mayFail, frames,
                 calls, phase, result, writeVars, poolVars, algVars>>

JoinNext ==
  \/ \E joins \in JoinMaps : Join("Users", joins)
  \/ \E joins \in {Falsy, Entry(K("a"), CHOOSE g \in GoodDefs : TRUE)} :
       Join("Tags", joins)

SpecJoin == JoinInit /\ [][JoinNext]_vars

(***************************************************************************)
(* The join registry                                                       *)
(***************************************************************************)
\* the join calls on the collection C that registered a map since the most
\* recent falsy call on C
SinceReset(C) ==
  LET resets == {i \in DOMAIN joinLog : joinLog[i].Coll = C /\ joinLog[i].joins = Falsy}
  IN {i \in DOMAIN joinLog :
        /\ joinLog[i].Coll = C
        /\ joinLog[i].joins # Falsy
        /\ ~joinLog[i].threw
        /\ \A r \in resets : r < i}

\* the union of the maps those calls registered, the last registration of a
\* join name winning
UnionSinceReset(C) ==
  LET has(k) == {i \in SinceReset(C) : k \in DOMAIN joinLog[i].joins}
      last(k) == CHOOSE i \in has(k) : \A j \in has(k) : j <= i
  IN [k \in UNION {DOMAIN joinLog[i].joins : i \in SinceReset(C)} |->
        joinLog[last(k)].joins[k]]

\* C17: after any sequence of join calls, getJoins(C) is the union of the
\* join maps registered for C since the most recent falsy call, the last
\* registration winning per join name and the other names preserved; it is
\* the empty map right after a falsy call and for a collection never
\* registered.
C17_RegistryIsUnion ==
  \A C \in {"Users", "Tags", "Others"} : getJoins(C) = UnionSinceReset(C)

\* C17: three registrations on Users: a, then b, then a again with another
\* definition: a and b are registered, a with its last definition
C17_Witness ==
  /\ Len(joinLog) = 3
  /\ \A i \in 1..3 : joinLog[i].Coll = "Users" /\ joinLog[i].joins # Falsy
                     /\ ~joinLog[i].threw
  /\ DOMAIN joinLog[1].joins = {K("a")}
  /\ DOMAIN joinLog[2].joins = {K("b")}
  /\ DOMAIN joinLog[3].joins = {K("a")}
  /\ joinLog[3].joins[K("a")] # joinLog[1].joins[K("a")]
  /\ DOMAIN getJoins("Users") = {K("a"), K("b")}
  /\ getJoins("Users")[K("a")] = joinLog[3].joins[K("a")]

\* the spec's example: join(C, false) then join(C, {b}) leaves only b
C17_WitnessReset ==
  /\ Len(joinLog) = 3
  /\ \A i \in 1..3 : joinLog[i].Coll = "Users"
  /\ joinLog[1].joins # Falsy /\ DOMAIN joinLog[1].joins = {K("a")}
  /\ joinLog[2].joins = Falsy
  /\ joinLog[3].joins # Falsy /\ DOMAIN joinLog[3].joins = {K("b")}
  /\ DOMAIN getJoins("Users") = {K("b")}

\* a definition join accepts
WellFormed(def) == def.Coll # NoColl /\ def.on.type \in KNOWN_TYPES

\* the keys of a joins argument whose definition is malformed
Malformed(joins) ==
  IF joins = Falsy THEN {} ELSE {k \in DOMAIN joins : ~WellFormed(joins[k])}

\* C18: a malformed join definition is rejected at registration time, never
\* at fetch time: join throws exactly when an entry of its argument lacks its
\* collection, lacks its on, or has an on that is no array, object or
\* function; the error names a key of such an entry and tells which of the
\* three it is; what is registered is always well formed.
C18_RejectedAtRegistration ==
  /\ joinLog # <<>> =>
       LET last == joinLog[Len(joinLog)]
       IN /\ last.threw = (Malformed(last.joins) # {})
          /\ last.threw = (joinThrew # NoJoinError)
          /\ last.threw =>
               /\ joinThrew.key \in Malformed(last.joins)
               /\ LET def == last.joins[joinThrew.key]
                  IN joinThrew.kind =
                       IF def.Coll = NoColl THEN "noColl"
                       ELSE IF def.on.type \in {"undefined", "null"} \/ ~def.on.truthy
                         THEN "noOn" ELSE "badType"
  /\ \A C \in DOMAIN joinsDictionnary : \A k \in DOMAIN joinsDictionnary[C] :
       WellFormed(joinsDictionnary[C][k])

\* C18: a well formed join is registered and a call with a malformed second
\* entry threw, naming that entry
C18_Witness ==
  /\ Len(joinLog) >= 2
  /\ joinLog[Len(joinLog)].Coll = "Users"
  /\ joinLog[Len(joinLog)].threw
  /\ joinThrew = JoinError("badType", K("b"))
  /\ DOMAIN getJoins("Users") = {K("a")}

(***************************************************************************)
(* fields.js: combineFields, and the reduce of combineHookOptions over the *)
(* fields of the hook definitions of one hook type.                        *)
(***************************************************************************)
\* allFields(fields): the spec means "all fields"
allFields(fields) ==
  IF fields = Undef THEN TRUE
  ELSE IF ~Truthy(fields) THEN FALSE
  ELSE ~isObj(fields)

\* a removeFalsyFields that keeps nothing
dropFields(fields) == Obj(EmptyMap)
\* removeFalsyFields(fields): the top-level entries with a truthy value
removeFalsyFields(fields) ==
  IF ~isObj(fields) THEN Obj(EmptyMap)
  ELSE Obj(FilterKeys(fields.m, {k \in DOMAIN fields.m : Truthy(fields.m[k])}))

RECURSIVE deepMergeFields(_, _)
\* deepMergeFields(a, b): b over a, merged recursively where both are objects
deepMergeFields(a, b) ==
  Obj([key \in (DOMAIN a.m) \cup (DOMAIN b.m) |->
        IF key \notin DOMAIN b.m THEN a.m[key]
        ELSE IF /\ key \in DOMAIN a.m
                /\ isObj(a.m[key])
                /\ isObj(b.m[key])
          THEN deepMergeFields(a.m[key], b.m[key])
          ELSE b.m[key]])

\* combineFields(a, b)
combineFields(a, b) ==
  IF allFields(a) \/ allFields(b) THEN Undef
  ELSE IF ~Truthy(a) /\ ~Truthy(b) THEN Obj(EmptyMap)
  ELSE deepMergeFields(removeFalsyFields(a), removeFalsyFields(b))

RECURSIVE HookFieldsReduce(_, _)
\* the fields of combineHookOptions: the reduce over the fields of the hook
\* definitions, from the accumulator acc
HookFieldsReduce(acc, hookFields) ==
  IF hookFields = <<>> THEN acc
  ELSE HookFieldsReduce(combineFields(acc, Head(hookFields)), Tail(hookFields))

\* combineHookOptions(hookDefs).fields, hookDefs given by their fields
combineHookOptions(hookFields) == HookFieldsReduce(Null, hookFields)

\* the values a field spec gives the key x: a leaf or a sub-spec over y and z
XValues ==
  {Num(1), Num(0),
   Obj([k \in {K("y")} |-> Num(1)]),
   Obj([k \in {K("z")} |-> Num(1)]),
   Obj([k \in {K("y"), K("z")} |-> Num(1)]),
   Obj([k \in {K("y")} |-> Num(0)])}

\* the values a field spec gives the key w: a leaf
WValues == {Num(1), Num(0)}

\* the object field specs over the keys x and w
ObjSpecs ==
  {Obj(EmptyMap)}
    \cup {Obj([k \in {K("x")} |-> x]) : x \in XValues}
    \cup {Obj([k \in {K("w")} |-> w]) : w \in WValues}
    \cup {Obj([k \in {K("x"), K("w")} |-> IF k = K("x") THEN xw[1] ELSE xw[2]]) :
            xw \in XValues \X WValues}

\* the field specs: all fields (undefined, 1), no field (null), and objects
Specs == {Undef, Null, Num(1)} \cup ObjSpecs

\* what was made of fa, fb and fc
Out(a, b, c) ==
  [done |-> TRUE,
   aa |-> combineFields(a, a),
   ab |-> combineFields(a, b),
   ba |-> combineFields(b, a),
   ab_c |-> combineFields(combineFields(a, b), c),
   a_bc |-> combineFields(a, combineFields(b, c)),
   hooks |-> combineHookOptions(<<a, b>>),
   skooh |-> combineHookOptions(<<b, a>>)]

FieldsInit ==
  /\ joinsDictionnary = Registry
  /\ NoFetchCall
  /\ async = FALSE
  /\ WriteIdle
  /\ PoolIdle
  /\ RegIdle
  /\ fa \in Specs
  /\ fb \in Specs
  /\ fc \in Specs
  /\ fout = NoOut

\* the fields are combined
Combine ==
  /\ ~fout.done
  /\ fout' = Out(fa, fb, fc)
  /\ UNCHANGED <<fetchVars, writeVars, poolVars, regVars, fa, fb, fc>>

FieldsNext == Combine

SpecFields == FieldsInit /\ [][FieldsNext]_vars

(***************************************************************************)
(* What a field spec selects of a document with the leaves x.y, x.z and w. *)
(***************************************************************************)
\* the leaf paths of the document
Paths == {<<"x", "y">>, <<"x", "z">>, <<"w">>}

\* the key k names the path p or a sub-document that holds it
Covers(k, p) == Len(k) <= Len(p) /\ SubSeq(p, 1, Len(k)) = k

\* the paths the projection selects: every path when it is undefined or
\* empty, the included ones when it includes some, else all but the excluded
Selected(spec) ==
  IF ~isObj(spec) THEN (IF allFields(spec) THEN Paths ELSE {})
  ELSE
    LET norm == normalizeFields(spec, TRUE)
        flat == IF isObj(norm) THEN norm.m ELSE EmptyMap
        included == {k \in DOMAIN flat : Truthy(flat[k])}
        excluded == {k \in DOMAIN flat : ~Truthy(flat[k])}
    IN IF included # {}
         THEN {p \in Paths : \E k \in included : Covers(k, p)}
         ELSE {p \in Paths : ~\E k \in excluded : Covers(k, p)}

\* the spec is concrete: an object, not "all fields"
Concrete(spec) == isObj(spec)

\* no top-level value of the concrete spec is falsy
TopTruthy(spec) == \A k \in DOMAIN spec.m : Truthy(spec.m[k])

\* some leaf of the concrete spec, at any depth, is falsy
RECURSIVE HasFalsyLeaf(_)
HasFalsyLeaf(spec) ==
  \E k \in DOMAIN spec.m :
    IF isObj(spec.m[k]) THEN HasFalsyLeaf(spec.m[k]) ELSE ~Truthy(spec.m[k])

\* C19 as stated: combineFields(spec, spec) selects what normalizeFields(spec)
\* selects for every concrete spec, falsy leaves included.
C19_Idempotent ==
  (fout.done /\ Concrete(fa)) =>
    Selected(fout.aa) = Selected(normalizeFields(fa, FALSE))

\* C19, amended: for every concrete spec without a falsy top-level value,
\* combineFields(spec, spec) is normalizeFields(spec), falsy leaves of
\* sub-specs included, and so selects the same fields.
C19_IdempotentOnTruthyTop ==
  (fout.done /\ Concrete(fa) /\ TopTruthy(fa)) =>
    /\ fout.aa = normalizeFields(fa, FALSE)
    /\ normalizeFields(fout.aa, TRUE) = normalizeFields(fa, TRUE)
    /\ Selected(fout.aa) = Selected(normalizeFields(fa, FALSE))

\* a spec with a leaf and a sub-spec that holds a falsy leaf was combined
\* with itself
C19_Witness ==
  /\ fout.done
  /\ fa = Obj([k \in {K("x"), K("w")} |->
               IF k = K("x") THEN Obj([j \in {K("y")} |-> Num(0)]) ELSE Num(1)])
  /\ HasFalsyLeaf(fa)
  /\ fout.aa = fa

\* a spec that excludes w was combined with itself and excludes nothing
C19_WitnessFalsyTop ==
  /\ fout.done
  /\ fa = Obj([k \in {K("w")} |-> Num(0)])
  /\ fout.aa = Obj(EmptyMap)
  /\ Selected(fout.aa) = Paths
  /\ Selected(normalizeFields(fa, FALSE)) = Paths \ {<<"w">>}

\* C20 as stated: combineFields is associative and commutative in what the
\* result selects, and so is the union of the fields of two hooks.
C20_OrderIndependent ==
  fout.done =>
    /\ Selected(fout.ab_c) = Selected(fout.a_bc)
    /\ Selected(fout.ab) = Selected(fout.ba)
    /\ Selected(fout.hooks) = Selected(fout.skooh)

\* one hook asks for x, the other for x.y: registered in this order, the
\* combined fields select x.y alone, in the other order all of x
C20_Witness ==
  /\ fout.done
  /\ fa = Obj([k \in {K("x")} |-> Num(1)])
  /\ fb = Obj([k \in {K("x")} |-> Obj([j \in {K("y")} |-> Num(1)])])
  /\ fout.hooks = fb
  /\ fout.skooh = fa
  /\ Selected(fout.hooks) = {<<"x", "y">>}
  /\ Selected(fout.skooh) = {<<"x", "y">>, <<"x", "z">>}

\* x.y, x and x.z are combined: grouped to the left x.z alone is selected,
\* grouped to the right x.y and x.z
C20_WitnessAssoc ==
  /\ fout.done
  /\ fa = Obj([k \in {K("x")} |-> Obj([j \in {K("y")} |-> Num(1)])])
  /\ fb = Obj([k \in {K("x")} |-> Num(1)])
  /\ fc = Obj([k \in {K("x")} |-> Obj([j \in {K("z")} |-> Num(1)])])
  /\ Selected(fout.ab_c) = {<<"x", "z">>}
  /\ Selected(fout.a_bc) = {<<"x", "y">>, <<"x", "z">>}

\* no key is given a leaf by one spec and a sub-spec or another leaf by the
\* other: where two of the specs share a key, both give it the same value
Agree(a, b) ==
  (isObj(a) /\ isObj(b)) =>
    \A k \in (DOMAIN a.m) \cap (DOMAIN b.m) : a.m[k] = b.m[k]

\* where the specs agree on the keys they share, the order does not matter
C20_OrderIndependentWhenAgreeing ==
  (fout.done /\ Agree(fa, fb) /\ Agree(fb, fc) /\ Agree(fa, fc)) =>
    /\ fout.ab_c = fout.a_bc
    /\ fout.ab = fout.ba
    /\ fout.hooks = fout.skooh

(***************************************************************************)
(* fields.js: flattenFields on field specs with dot-notation keys.         *)
(***************************************************************************)
\* the sub-specs under the key a: over the keys b, "b.c" and c
SubSpecs ==
  {Obj(FilterKeys([k \in {<<"b">>, <<"b", "c">>, <<"c">>} |->
                    IF v[k] = "obj" THEN Obj([j \in {<<"c">>} |-> Num(1)])
                    ELSE IF v[k] = "1" THEN Num(1) ELSE Num(0)],
                  {k \in DOMAIN v : v[k] # "absent"})) :
     v \in [{<<"b">>, <<"b", "c">>, <<"c">>} -> {"absent", "1", "0"}]
           \cup [{<<"b">>, <<"b", "c">>, <<"c">>} -> {"absent", "obj"}]}

\* the field spec that gives a, "a.b" and "a.b.c" the values va, vab and vabc,
\* Undef for a key it does not hold
Dotted(va, vab, vabc) ==
  LET all == [k \in {<<"a">>, <<"a", "b">>, <<"a", "b", "c">>} |->
                IF k = <<"a">> THEN va ELSE IF k = <<"a", "b">> THEN vab ELSE vabc]
  IN Obj(FilterKeys(all, {k \in DOMAIN all : all[k] # Undef}))

\* the field specs over the keys a, "a.b" and "a.b.c": a is absent, a leaf or
\* a sub-spec, "a.b" absent, a leaf or the sub-spec {c: 1}, "a.b.c" absent or a
\* leaf
DottedSpecs ==
  {Dotted(v[1], v[2], v[3]) :
     v \in ({Undef, Num(1), Num(0)} \cup SubSpecs)
           \X {Undef, Num(1), Num(0), Obj([j \in {<<"c">>} |-> Num(1)])}
           \X {Undef, Num(1), Num(0)}}

FlattenInit ==
  /\ NoFetch
  /\ async = FALSE
  /\ WriteIdle
  /\ PoolIdle
  /\ RegIdle
  /\ fa \in DottedSpecs
  /\ fb = Undef
  /\ fc = Undef
  /\ fout = NoOut

\* normalizeFields(fa, true)
Flatten ==
  /\ ~fout.done
  /\ fout' = [done |-> TRUE, flat |-> normalizeFields(fa, TRUE)]
  /\ UNCHANGED <<fetchVars, writeVars, poolVars, regVars, fa, fb, fc>>

FlattenNext == Flatten

SpecFlatten == FlattenInit /\ [][FlattenNext]_vars

\* the keys of the flattened projection, none when it is undefined
FlatKeys == IF isObj(fout.flat) THEN DOMAIN fout.flat.m ELSE {}

\* the path j lies under the path k
Under(k, j) == Len(k) < Len(j) /\ SubSeq(j, 1, Len(k)) = k

\* the key of the spec is one segment that selects a leaf
SelectedLeaf(spec, k) ==
  /\ Len(k) = 1
  /\ Truthy(spec.m[k])
  /\ ~isObj(spec.m[k])

\* C21 as stated: the flattened projection of a spec without $-operator keys
\* never holds a key together with a key nested under it.
C21_NoPathCollision ==
  fout.done => \A k \in FlatKeys, j \in FlatKeys : ~Under(k, j)

\* what the omission does give: a one-segment key of the spec that selects a
\* leaf is a key of the flattened projection with no key nested under it.
C21_NoCollisionUnderSelectedLeaf ==
  fout.done =>
    \A k \in DOMAIN fa.m :
      SelectedLeaf(fa, k) =>
        /\ k \in FlatKeys
        /\ fout.flat.m[k] = Bool(TRUE)
        /\ \A j \in FlatKeys : ~Under(k, j)

\* {a: 1, "a.b": 1, "a.b.c": 1} is flattened to {a: true}
C21_Witness ==
  /\ fout.done
  /\ fa = Dotted(Num(1), Num(1), Num(1))
  /\ fout.flat = Obj([k \in {<<"a">>} |-> Bool(TRUE)])

\* {a: {b: 1}, "a.b.c": 1} is flattened to {"a.b": true, "a.b.c": true}
C21_WitnessCollision ==
  /\ fout.done
  /\ fa = Dotted(Obj([k \in {<<"b">>} |-> Num(1)]), Undef, Num(1))
  /\ fout.flat = Obj([k \in {<<"a", "b">>, <<"a", "b", "c">>} |-> Bool(TRUE)])

(***************************************************************************)
(* The fields of the nested fetches of a recursive join.                   *)
(***************************************************************************)
\* the frame f is a nested fetch of the join friends at every level above it
ViaFriendsOnly(f) == frames[f].level >= 1 /\ FriendsLevel(f) = frames[f].level

\* the fields the documents of the caller's own level carry
TopCarried == UNION {DOMAIN calls[1].docs[i] : i \in 1..Len(calls[1].docs)}

\* the nested fetch f reuses the parent fields: its fields option has the own
\* part of the caller's, and its documents carry no other field than the
\* caller's own documents
ReusesParentFields(f) ==
  /\ OwnPart(frames[f].Coll, frames[f].options.fields)
       = OwnPart(request.Coll, request.options.fields)
  /\ calls[frames[f].call].status = "ok" =>
       \A i \in 1..Len(calls[frames[f].call].docs) :
         DOMAIN calls[frames[f].call].docs[i] \subseteq TopCarried

\* C22: a recursive join asked for with a numeric depth N reuses the parent
\* fields at every level 1..N: each nested fetch is issued with the caller's
\* own fields and its documents carry only the fields asked for the top level.
C22_ParentFieldsAtEveryLevel ==
  RequestedDepth >= 1 =>
    \A f \in 1..Len(frames) : ViaFriendsOnly(f) => ReusesParentFields(f)

\* the levels above the deepest one do reuse the parent fields
C22_ParentFieldsAboveDeepest ==
  RequestedDepth >= 1 =>
    \A f \in 1..Len(frames) :
      (ViaFriendsOnly(f) /\ frames[f].level < RequestedDepth) => ReusesParentFields(f)

\* {role: 1, friends: 2} on the chain: level 1 is fetched with the fields
\* {role: 1, friends: 1}, level 2 with all fields, and its documents carry meta
C22_Witness ==
  /\ phase = "returned"
  /\ db = ChainData
  /\ request.options.fields = FieldSpec(joinPrefix, One("role"), Friends(2))
  /\ Len(frames) = 3
  /\ ViaFriendsOnly(2) /\ frames[2].level = 1
  /\ frames[2].options.fields = FieldSpec(joinPrefix, One("role"), Friends(1))
  /\ ViaFriendsOnly(3) /\ frames[3].level = 2
  /\ frames[3].options.fields = Undef
  /\ "meta" \notin TopCarried
  /\ \E i \in 1..Len(calls[frames[3].call].docs) :
       "meta" \in DOMAIN calls[frames[3].call].docs[i]

(***************************************************************************)
(* util.js then: what a chain of then calls hands back, a plain value or a *)
(* promise.                                                                *)
(***************************************************************************)
\* what a storage call of the protocol of the run hands back
ProtocolReturns == IF async THEN "promise" ELSE "plain"

\* util.js isPromise
isPromise(x) == x = "promise"

\* a then that hands back a promise whatever it is given
alwaysPromise(values, fnReturns) == "promise"
\* then(maybePromise, fn): values holds what maybePromise is, or what its
\* elements are when it is an array, and fnReturns what fn hands back
thenReturns(values, fnReturns) ==
  IF \E x \in values : isPromise(x) THEN "promise" ELSE fnReturns

RECURSIVE fetchListReturns(_)
\* what the fetchList invocation of frame f hands back: the chain of then
\* over its base findList, its counts and its nested fetches, the last
\* continuation handing back the documents
fetchListReturns(f) ==
  LET storage == {ProtocolReturns : i \in {j \in 1..Len(calls) : calls[j].frame = f}}
      nested == {fetchListReturns(g) : g \in {h \in 1..Len(frames) : frames[h].parent = f}}
  IN thenReturns(storage \cup nested, "plain")

\* fetchOne and fetchIds: then(fetchList(...), res => ...)
fetchOneReturns == thenReturns({fetchListReturns(1)}, "plain")
fetchIdsReturns == thenReturns({fetchListReturns(1)}, "plain")

\* exists: then(fetchOne(...), doc => !!doc)
existsReturns == thenReturns({fetchOneReturns}, "plain")

\* C23: with a protocol whose methods return plain values, fetchList,
\* fetchOne, fetchIds and exists hand back a plain value and never a promise,
\* whatever joins are active; no storage call is ever awaited.
C23_NeverForcesAsync ==
  ~async =>
    /\ \A i \in 1..Len(calls) : calls[i].status # "pending"
    /\ phase = "returned" =>
         /\ fetchListReturns(1) = "plain"
         /\ fetchOneReturns = "plain"
         /\ fetchIdsReturns = "plain"
         /\ existsReturns = "plain"

\* a synchronous run with an array, an object and a function join active
\* returned a plain value after nested fetches
C23_Witness ==
  /\ ~async
  /\ phase = "returned"
  /\ frames[1].arrJoins # <<>>
  /\ frames[1].objJoins # <<>>
  /\ frames[1].fnJoins # <<>>
  /\ Len(frames) > 3
  /\ fetchListReturns(1) = "plain"

\* the same request with a promise returning protocol hands back a promise
C23_WitnessPromise ==
  /\ async
  /\ phase = "returned"
  /\ frames[1].fnJoins # <<>>
  /\ fetchListReturns(1) = "promise"
  /\ existsReturns = "promise"

(***************************************************************************)
(* Self-referential object and function joins asked for without a depth.   *)
(***************************************************************************)
\* the selector of the join def matches a stored document, for some base
\* document when the selector is computed from it
SelectorMatches(def) ==
  IF def.on.type = "object" THEN count(def.Coll, def.on.sel) > 0
  ELSE \E i \in 1..Len(db[request.Coll]) :
         count(def.Coll, FnSelector(def.on, db[request.Coll][i])) > 0

\* the caller asks for a self-referential object or function join with true
\* or a sub-spec, and the selector of the join matches a document
NonNumericSelfJoin ==
  \E k \in DOMAIN RequestedJoins :
    LET def == getJoins(request.Coll)[k]
        v == RequestedJoins[k]
    IN /\ def.Coll = request.Coll
       /\ def.on.type \in {"object", "function"}
       /\ Truthy(v)
       /\ v.t # "num"
       /\ SelectorMatches(def)

\* C24: fetchList terminates when a self-referential object or function join
\* is asked for with a non-numeric truthy value and its selector matches a
\* document: the run is never cut off as still recursing.
C24_NonNumericTerminates ==
  NonNumericSelfJoin => phase # "overflow"

\* {boss: true} on the chain, where A is a boss: every nested fetch is issued
\* with the same fields and the same selector as the one before, and the run
\* is cut off after MaxFrames invocations
C24_Witness ==
  /\ NonNumericSelfJoin
  /\ phase = "overflow"
  /\ Len(frames) = MaxFrames
  /\ \A f \in 2..Len(frames) :
       /\ frames[f].parent = f - 1
       /\ frames[f].via.key = K("boss")
       /\ frames[f].options.fields = request.options.fields
       /\ frames[f].selector = frames[2].selector

(***************************************************************************)
(* The order in which the joins of one fetchList invocation are resolved.  *)
(***************************************************************************)
\* the type of the join key of the collection of frame f
KeyType(f, key) == getJoins(frames[f].Coll)[key].on.type

\* the counts frame f issued for its joins of the given type
CountsFor(f, type) ==
  {i \in 1..Len(calls) :
     /\ calls[i].frame = f
     /\ calls[i].method = "count"
     /\ KeyType(f, calls[i].via.key) = type}

\* the nested fetches frame f invoked for its joins of the given type
NestedFor(f, type) ==
  {g \in 1..Len(frames) :
     /\ frames[g].parent = f
     /\ KeyType(f, frames[g].via.key) = type}

\* frame f issued a storage call for a join of the given type
IssuedFor(f, type) == CountsFor(f, type) # {} \/ NestedFor(f, type) # {}

\* every storage call frame f issued for a join of the given type is
\* settled and every nested fetch it invoked for one has returned
CompletedFor(f, type) ==
  /\ \A i \in CountsFor(f, type) : calls[i].status = "ok"
  /\ \A g \in NestedFor(f, type) : frames[g].pc = "done"

\* every array join of frame f is resolved
ArrJoinsResolved(f) ==
  /\ frames[f].arrIdx > Len(frames[f].arrJoins)
  /\ frames[f].pc \in {"arr", "obj", "fn", "done"}
  /\ CompletedFor(f, "array")

\* every object join of frame f is resolved
ObjJoinsFetched(f) ==
  /\ frames[f].pc \in {"fn", "done"}
  /\ CompletedFor(f, "object")

\* C25: within one fetchList call no storage call for an object join is
\* issued before every array join's nested fetch has completed, and none for a
\* function join before every object join's fetch has completed, with a
\* synchronous and with a promise returning protocol.
C25_ArrayObjectFunction ==
  \A f \in 1..Len(frames) :
    /\ IssuedFor(f, "object") => ArrJoinsResolved(f)
    /\ IssuedFor(f, "function") => (ArrJoinsResolved(f) /\ ObjJoinsFetched(f))

\* a promise returning protocol, the joins friends, tags, team and mine: a
\* fetch for the function join mine is pending, the fetches of the array
\* joins and of the object join have returned
C25_Witness ==
  /\ async
  /\ phase = "running"
  /\ NestedFor(1, "array") # {}
  /\ NestedFor(1, "object") # {}
  /\ \E g \in NestedFor(1, "function") : calls[frames[g].call].status = "pending"
  /\ ArrJoinsResolved(1)
  /\ ObjJoinsFetched(1)

\* the same with a synchronous protocol, once fetchList returned
C25_WitnessSync ==
  /\ ~async
  /\ phase = "returned"
  /\ NestedFor(1, "array") # {}
  /\ NestedFor(1, "object") # {}
  /\ NestedFor(1, "function") # {}

(***************************************************************************)
(* The fields of the nested fetch of an array join that is not recursive.  *)
(***************************************************************************)
\* the nested fetches of the array joins of frame f that are not recursive:
\* the pairs of a frame and the join key it is fetched for
PlainArrFetches ==
  {fg \in (1..Len(frames)) \X (1..Len(frames)) :
     /\ frames[fg[2]].parent = fg[1]
     /\ KeyType(fg[1], frames[fg[2]].via.key) = "array"
     /\ ~ArrIsRecursive(frames[fg[1]], frames[fg[2]].via.key,
                        getJoins(frames[fg[1]].Coll)[frames[fg[2]].via.key])}

\* the definition of the join the nested fetch of the pair is made for, and
\* what the caller of the parent gave under its key
DefOf(fg) == getJoins(frames[fg[1]].Coll)[frames[fg[2]].via.key]
AskedOf(fg) == frames[fg[1]].joinFields[frames[fg[2]].via.key]

\* C26 as stated: the fields passed to the nested fetch of a non-recursive
\* array join are the fields the join definition declares.
C26_DeclaredTargetFields ==
  \A fg \in PlainArrFetches : frames[fg[2]].options.fields = DefOf(fg).fields

\* C26, amended: the fields passed to the nested fetch of a non-recursive
\* array join are what the caller's field spec gives under the join key: all
\* fields for a truthy flag, the sub-spec for a sub-spec, with the to-property
\* of the join added to it and nothing else.
C26_RequestedSubFields ==
  \A fg \in PlainArrFetches :
    LET passed == frames[fg[2]].options.fields
        asked == AskedOf(fg)
    IN IF ~isObj(asked) THEN passed = normalizeFields(asked, FALSE)
       ELSE /\ isObj(passed)
            /\ \A k \in DOMAIN asked.m : k \in DOMAIN passed.m /\ passed.m[k] = asked.m[k]
            /\ DOMAIN passed.m \subseteq (DOMAIN asked.m) \cup {K(DefOf(fg).on.to)}

\* {owned: {kind: 1}}: the join owned declares no fields, and its nested
\* fetch is issued with the fields {kind: 1, owner: 1}
C26_Witness ==
  /\ joinPrefix = ""
  /\ request.options.fields = Obj(Entry(K("owned"), Obj(One("kind"))))
  /\ <<1, 2>> \in PlainArrFetches
  /\ DefOf(<<1, 2>>).fields = Undef
  /\ frames[2].options.fields = Obj(One("kind") @@ One("owner"))

(***************************************************************************)
(* A join key given a falsy flag by the caller.                            *)
(***************************************************************************)
\* the registered joins the caller's field spec names with 0 or false
FalsyJoinKeys ==
  {k \in DOMAIN RequestedJoins :
     ~isObj(RequestedJoins[k]) /\ ~Truthy(RequestedJoins[k])}

\* a storage call was issued for the join key of the caller's fetch: a
\* count, or the findList of a nested fetch
StorageCallFor(key) ==
  \/ \E i \in 1..Len(calls) :
       calls[i].frame = 1 /\ calls[i].method = "count" /\ calls[i].via.key = key
  \/ \E g \in 1..Len(frames) : frames[g].parent = 1 /\ frames[g].via.key = key

\* C27: with no join prefix, a registered join whose key the fetch field spec
\* gives a falsy flag is not resolved: no storage call is issued for it and its
\* key is not attached to the returned documents.
C27_FalsyJoinNotResolved ==
  joinPrefix = "" =>
    \A k \in FalsyJoinKeys :
      /\ ~StorageCallFor(k)
      /\ phase = "returned" =>
           \A i \in 1..Len(result) : k[1] \notin DOMAIN result[i]

\* {friends: 0} on the chain: the friends of every user were fetched with all
\* their fields and attached
C27_Witness ==
  /\ joinPrefix = ""
  /\ db = ChainData
  /\ FalsyJoinKeys = {K("friends")}
  /\ phase = "returned"
  /\ frames[2].parent = 1
  /\ frames[2].via.key = K("friends")
  /\ calls[frames[2].call].method = "findList"
  /\ frames[2].options.fields = Obj(EmptyMap)
  /\ result[1]["friends"].jt = "list"
  /\ IdsOf(result[1]["friends"].docs) = {"B"}
  /\ "meta" \in DOMAIN result[1]["friends"].docs[1]

(***************************************************************************)
(* The pool when every running call settles: await fn(...args) returns or  *)
(* throws, and the finally of processCall runs.                            *)
(***************************************************************************)
\* every call that runs eventually completes or fails
EveryCallSettles == \A call \in 1..MaxCalls : WF_vars(PoolComplete(call))

SpecPoolFair == PoolInit /\ [][PoolNext]_vars /\ EveryCallSettles

\* the calls that wait
Waiting == {pendings[i] : i \in DOMAIN pendings}

\* the step is the finally of processCall: a running call left the pool
Settles == nextId' = nextId /\ \E call \in concurrents : call \notin concurrents'

\* the step starts calls from the head of the queue only, and a call that
\* settles starts the oldest waiting call, whether it returned or threw
StartsOldest ==
  /\ \A call \in concurrents' \ concurrents :
       call = nextId \/ (pendings # <<>> /\ call = Head(pendings))
  /\ (Settles /\ pendings # <<>>) =>
       /\ Head(pendings) \in concurrents'
       /\ pendings' = Tail(pendings)

C28_NeverStuck == pendings # <<>> => Cardinality(concurrents) = maxConcurrent

ShiftOverflow ==
  /\ nextId' = nextId + 1
  /\ onOverflow = "shift"
  /\ Cardinality(concurrents) >= maxConcurrent
  /\ Len(pendings) >= maxPending

\* the oldest waiting call is discarded and the incoming one waits last
OldestReplaced ==
  /\ pendings' = Append(IF pendings = <<>> THEN <<>> ELSE Tail(pendings), nextId)
  /\ concurrents' = concurrents

\* C29 as stated: under "shift", a call that arrives while the concurrency
\* slots and the pending queue are full discards the oldest pending call and
\* is enqueued at the tail, for every valid maxPending, 0 included.
C29_ShiftEnqueuesIncoming == [][ShiftOverflow => OldestReplaced]_vars

\* C29, amended: so it is for every maxPending >= 1; with maxPending = 0 no
\* call waits and the incoming call is dropped.
C29_ShiftEnqueuesWhenRoom ==
  [][ShiftOverflow =>
       IF maxPending >= 1 THEN OldestReplaced
       ELSE pendings' = <<>> /\ concurrents' = concurrents]_vars

\* one call runs, calls 2 and 3 waited, call 4 arrived: 3 and 4 wait
C29_Witness ==
  /\ onOverflow = "shift"
  /\ maxConcurrent = 1
  /\ maxPending = 2
  /\ lastAdd = "shift"
  /\ concurrents = {1}
  /\ pendings = <<3, 4>>

\* maxPending is 0, one call runs and call 2 arrived: it is neither run nor
\* does it wait
C29_WitnessZero ==
  /\ onOverflow = "shift"
  /\ maxConcurrent = 1
  /\ maxPending = 0
  /\ lastAdd = "shift"
  /\ nextId = 3
  /\ concurrents = {1}
  /\ pendings = <<>>

(***************************************************************************)
(* A join call that throws.                                                *)
(***************************************************************************)
\* the step is a join call that threw
JoinThrows == Len(joinLog') = Len(joinLog) + 1 /\ joinThrew' # NoJoinError

\* C30: a join(Collection, joins) call that throws because an entry of the
\* map is malformed leaves the registry as it was: no entry of the map is
\* registered, for any collection.
C30_AtomicOnFailure ==
  [][JoinThrows =>
       /\ joinsDictionnary' = joinsDictionnary
       /\ \A C \in {"Users", "Tags", "Others"} : getJoins(C)' = getJoins(C)]_vars

\* after join(Users, {b: ...}) was accepted, join(Users, {a: well formed,
\* b: malformed}) threw: b is registered as before and a is not
C30_Witness ==
  /\ Len(joinLog) = 2
  /\ joinLog[1].Coll = "Users"
  /\ ~joinLog[1].threw
  /\ joinLog[1].joins # Falsy
  /\ DOMAIN joinLog[1].joins = {K("b")}
  /\ joinLog[2].Coll = "Users"
  /\ joinLog[2].threw
  /\ joinLog[2].joins # Falsy
  /\ DOMAIN joinLog[2].joins = {K("a"), K("b")}
  /\ WellFormed(joinLog[2].joins[K("a")])
  /\ getJoins("Users") = joinLog[1].joins

====
